---- MODULE Spec2Model ----
(***************************************************************************)
(* Model of mcp-ado-py: the natural-language to WIQL converter             *)
(* (mcp_ado/utils/query_converter.py), the field mapper                    *)
(* (mcp_ado/utils/field_mapper.py) and the create/update field paths of    *)
(* the tools (mcp_ado/tools/creation_tools.py, work_item_tools.py).        *)
(*                                                                         *)
(* Texts are native strings; Python's str and re operations are modelled   *)
(* character by character.  An Optional[str] is <<>> (None) or <<s>>.      *)
(***************************************************************************)
EXTENDS Integers, Sequences, FiniteSets, TLC

VARIABLES
  now,     \* the wall clock: the ordinal of the current date
  text,    \* the text given to convert_to_wiql
  out,     \* what convert_to_wiql returned or raised
  called,  \* the clock when convert_to_wiql was invoked
  fcall,   \* the call made on the field mapper or on a tool
  fret,    \* what that call returned, raised and sent to the backend
  tables,  \* the lookup tables of the translator and of the field catalog
  threads, \* the invocations running on them side by side
  loop,    \* the loop of _extract_time_conditions: the entry it is at, the conditions so far
  initialized,  \* McpServer.initialized
  tools,   \* McpServer.tools: the registered tools
  running, \* the main loop of the server has not ended
  log,     \* the lines read from stdin and the responses written to stdout
  http,    \* the requests made on the backend, each with the status it was answered with
  batch    \* create_multiple_work_items: the items given, the results and the errors so far

vars == <<now, text, out, called, fcall, fret, tables, threads, loop,
          initialized, tools, running, log, http, batch>>

(***************************************************************************)
(* Bounds                                                                  *)
(***************************************************************************)
MaxFrags == 2
MaxClock == 1
MaxEntries == 1
\* the invocations running side by side
MaxThreads == 2
\* the lines the server reads from stdin
MaxRequests == 3
\* the items given to create_multiple_work_items
MaxItems == 2

(***************************************************************************)
(* Python str primitives                                                   *)
(***************************************************************************)
Min(S) == CHOOSE m \in S : \A n \in S : m <= n
Max(S) == CHOOSE m \in S : \A n \in S : n <= m

Char(s, i) == IF i < 1 \/ i > Len(s) THEN "" ELSE SubSeq(s, i, i)

UpperChars == "ABCDEFGHIJKLMNOPQRSTUVWXYZ"
LowerChars == "abcdefghijklmnopqrstuvwxyz"
DigitChars == "0123456789"

IndexIn(alphabet, c) ==
  LET S == {i \in 1..Len(alphabet) : Char(alphabet, i) = c}
  IN IF S = {} THEN 0 ELSE Min(S)

CharsOf(alphabet) == {Char(alphabet, k) : k \in 1..Len(alphabet)}

Spaces == {" ", "\t", "\n"}
Digit == CharsOf(DigitChars)
\* \w
WordChars == CharsOf(LowerChars) \cup CharsOf(UpperChars) \cup Digit \cup {"_"}

IsSpace(c) == c \in Spaces
IsWordChar(c) == c \in WordChars

LowerChar(c) ==
  LET k == IndexIn(UpperChars, c) IN IF k = 0 THEN c ELSE Char(LowerChars, k)

\* str.lower()
RECURSIVE Lower(_)
Lower(s) ==
  IF Len(s) <= 1 THEN LowerChar(s)
  ELSE LET h == Len(s) \div 2
       IN Lower(SubSeq(s, 1, h)) \o Lower(SubSeq(s, h + 1, Len(s)))

\* str.strip()
Strip(s) ==
  LET N == {i \in 1..Len(s) : ~IsSpace(Char(s, i))}
  IN IF N = {} THEN ""
     ELSE SubSeq(s, Min(N), Max(N))

\* does s hold lit at position i
StartsAt(s, i, lit) ==
  i >= 1 /\ i + Len(lit) - 1 <= Len(s) /\ SubSeq(s, i, i + Len(lit) - 1) = lit

\* key in s
Contains(s, key) == \E i \in 1..(Len(s) - Len(key) + 1) : StartsAt(s, i, key)

\* sep.join(xs)
RECURSIVE Join(_, _)
Join(xs, sep) ==
  IF xs = <<>> THEN ""
  ELSE IF Len(xs) = 1 THEN xs[1]
  ELSE xs[1] \o sep \o Join(Tail(xs), sep)

(***************************************************************************)
(* Python re primitives.  A position is an index into s; 0 is "no match".  *)
(* A pattern is an operator P(s, i) giving the match that starts at i:     *)
(* ok, the group g and the position e after the match.                     *)
(***************************************************************************)
\* end (exclusive) of the longest run from i of characters of the class
RunEnd(s, i, cls) ==
  Min({j \in i..(Len(s) + 1) : j = Len(s) + 1 \/ Char(s, j) \notin cls})

\* end (exclusive) of the longest run from i of characters outside the class
RunEndNot(s, i, cls) ==
  Min({j \in i..(Len(s) + 1) : j = Len(s) + 1 \/ Char(s, j) \in cls})

\* \s+ at i: position after the run, 0 when there is no whitespace at i
SkipSpaces(s, i) ==
  IF i = 0 \/ i > Len(s) THEN 0
  ELSE LET e == RunEnd(s, i, Spaces) IN IF e = i THEN 0 ELSE e

\* literal at i: position after it, 0 when absent
Lit(s, i, lit) == IF i # 0 /\ StartsAt(s, i, lit) THEN i + Len(lit) ELSE 0

\* [^\s,]+ at i: position after the run, 0 when empty
Token(s, i) ==
  IF i = 0 \/ i > Len(s) THEN 0
  ELSE LET e == RunEndNot(s, i, Spaces \cup {","}) IN IF e = i THEN 0 ELSE e

\* [^\s,]+(?:\s+[^\s,]+)* at i, greedy: position after the last token
RECURSIVE MoreTokens(_, _)
MoreTokens(s, e) ==
  LET n == Token(s, SkipSpaces(s, e))
  IN IF n = 0 THEN e ELSE MoreTokens(s, n)

Tokens(s, i) ==
  LET e == Token(s, i) IN IF e = 0 THEN 0 ELSE MoreTokens(s, e)

\* \d+ at i
Digits(s, i) ==
  IF i = 0 \/ i > Len(s) THEN 0
  ELSE LET e == RunEnd(s, i, Digit) IN IF e = i THEN 0 ELSE e

NoMatch == [ok |-> FALSE, g |-> "", e |-> 0]
Match(s, a, b) == IF b = 0 THEN NoMatch ELSE [ok |-> TRUE, g |-> SubSeq(s, a, b - 1), e |-> b]

\* re.search: the match at the leftmost position where the pattern matches
Search(s, P(_, _)) ==
  LET S == {i \in 1..Len(s) : P(s, i).ok}
  IN IF S = {} THEN NoMatch ELSE P(s, Min(S))

\* the start positions of the non-overlapping matches, scanning left to
\* right, where m[i] is the match that starts at i
RECURSIVE Starts(_, _)
Starts(m, from) ==
  LET S == {i \in from..Len(m) : m[i].ok}
  IN IF S = {} THEN <<>> ELSE <<Min(S)>> \o Starts(m, m[Min(S)].e)

\* re.findall of a one-group pattern: the groups of those matches
FindAll(s, P(_, _)) ==
  LET m == [i \in 1..Len(s) |-> P(s, i)]
      at == Starts(m, 1)
  IN [k \in 1..Len(at) |-> m[at[k]].g]

\* s without the matches that start at at[k], at[k+1], ...
RECURSIVE Cut(_, _, _, _, _)
Cut(s, m, at, k, from) ==
  IF k > Len(at) THEN SubSeq(s, from, Len(s))
  ELSE SubSeq(s, from, at[k] - 1) \o Cut(s, m, at, k + 1, m[at[k]].e)

\* re.sub(pattern, '', s)
SubAll(s, P(_, _)) ==
  LET m == [i \in 1..Len(s) |-> P(s, i)]
  IN Cut(s, m, Starts(m, 1), 1, 1)

\* s.replace(key, ''): the non-overlapping occurrences, left to right
Remove(s, key) ==
  IF ~Contains(s, key) THEN s
  ELSE SubAll(s, LAMBDA x, i : Match(x, i, Lit(x, i, key)))

\* prefix \s+ ([^\s,]+(?:\s+[^\s,]+)*)
PrefixTokens(s, i, prefix) ==
  LET a == SkipSpaces(s, Lit(s, i, prefix))
  IN IF a = 0 THEN NoMatch ELSE Match(s, a, Tokens(s, a))

\* first \s+ second \s+ ([^\s,]+(?:\s+[^\s,]+)*)
Prefix2Tokens(s, i, first, second) ==
  LET a == SkipSpaces(s, Lit(s, SkipSpaces(s, Lit(s, i, first)), second))
  IN IF a = 0 THEN NoMatch ELSE Match(s, a, Tokens(s, a))

(***************************************************************************)
(* QueryConverter.__init__: the lookup tables, in insertion order          *)
(***************************************************************************)
work_item_types == <<
  <<"bug", "Bug">>, <<"bugs", "Bug">>, <<"task", "Task">>, <<"tasks", "Task">>,
  <<"story", "User Story">>, <<"stories", "User Story">>,
  <<"user story", "User Story">>, <<"user stories", "User Story">>,
  <<"feature", "Feature">>, <<"features", "Feature">>,
  <<"epic", "Epic">>, <<"epics", "Epic">>,
  <<"issue", "Issue">>, <<"issues", "Issue">>,
  <<"test case", "Test Case">>, <<"test cases", "Test Case">> >>

states == <<
  <<"new", "New">>, <<"active", "Active">>, <<"resolved", "Resolved">>,
  <<"closed", "Closed">>, <<"done", "Done">>, <<"completed", "Done">>,
  <<"in progress", "Active">>, <<"todo", "To Do">>, <<"to do", "To Do">>,
  <<"removed", "Removed">> >>

priorities == <<
  <<"critical", "1">>, <<"high", "2">>, <<"medium", "3">>, <<"low", "4">>,
  <<"1", "1">>, <<"2", "2">>, <<"3", "3">>, <<"4", "4">> >>

\* dict.get(key): <<>> when the key is absent
DictGet(tbl, key) ==
  LET S == {i \in 1..Len(tbl) : tbl[i][1] = key}
  IN IF S = {} THEN <<>> ELSE <<tbl[Min(S)][2]>>

\* for key, value in tbl.items(): if key in query: return value
FirstKeyIn(tbl, query) ==
  LET S == {i \in 1..Len(tbl) : Contains(query, tbl[i][1])}
  IN IF S = {} THEN <<>> ELSE <<tbl[Min(S)][2]>>


(***************************************************************************)
(* datetime: a date is its proleptic Gregorian ordinal (date.toordinal()). *)
(***************************************************************************)
Pad(n, width) ==
  LET str == ToString(n)
  IN SubSeq("0000", 1, width - Len(str)) \o str

\* strftime('%Y-%m-%d') of the date with the given ordinal
strftime(ordinal) ==
  LET z == ordinal - 719163 + 719468
      era == z \div 146097
      doe == z - era * 146097
      yoe == (doe - doe \div 1460 + doe \div 36524 - doe \div 146096) \div 365
      doy == doe - (365 * yoe + yoe \div 4 - yoe \div 100)
      mp == (5 * doy + 2) \div 153
      d == doy - (153 * mp + 2) \div 5 + 1
      m == IF mp < 10 THEN mp + 3 ELSE mp - 9
      y == yoe + era * 400 + (IF m <= 2 THEN 1 ELSE 0)
  IN Pad(y, 4) \o "-" \o Pad(m, 2) \o "-" \o Pad(d, 2)

\* int(s) of a string of decimal digits
RECURSIVE IntOfDigits(_)
IntOfDigits(s) ==
  IF s = "" THEN 0
  ELSE 10 * IntOfDigits(SubSeq(s, 1, Len(s) - 1)) + (IndexIn(DigitChars, Char(s, Len(s))) - 1)

\* the ordinal of the clock at the start of the model: 2024-03-01
StartDay == 738946

(***************************************************************************)
(* QueryConverter.__init__: time_patterns.  Each entry is a regular        *)
(* expression and a lambda; params is the number of parameters the lambda  *)
(* declares, days the number of days one unit stands for.                  *)
(***************************************************************************)
time_patterns == <<
  [re |-> "today",      params |-> 0, days |-> 0],
  [re |-> "yesterday",  params |-> 0, days |-> 1],
  [re |-> "this week",  params |-> 0, days |-> 7],
  [re |-> "last week",  params |-> 0, days |-> 14],
  [re |-> "this month", params |-> 0, days |-> 30],
  [re |-> "last month", params |-> 0, days |-> 60],
  [re |-> "day",        params |-> 1, days |-> 1],
  [re |-> "week",       params |-> 1, days |-> 7],
  [re |-> "month",      params |-> 1, days |-> 30] >>

\* s?\s+ago after the unit that ends before u
AgoEnd(s, u) ==
  IF Lit(s, SkipSpaces(s, Lit(s, u, "s")), "ago") # 0
  THEN Lit(s, SkipSpaces(s, Lit(s, u, "s")), "ago")
  ELSE Lit(s, SkipSpaces(s, u), "ago")

\* the match of (\d+)\s+<unit>s?\s+ago at i whose digits end before d and
\* that ends before e
AgoMatch(s, i, d, e) ==
  IF e = 0 THEN NoMatch ELSE [ok |-> TRUE, g |-> SubSeq(s, i, d - 1), e |-> e]

AgoFrom(s, i, unit, d) == AgoMatch(s, i, d, AgoEnd(s, Lit(s, SkipSpaces(s, d), unit)))

\* (\d+)\s+<unit>s?\s+ago at i
AgoAt(s, i, unit) == AgoFrom(s, i, unit, Digits(s, i))

\* re.search(pattern, query) for the pattern of a time_patterns entry
TimeSearch(p, query) ==
  IF p.params = 0
  THEN Search(query, LAMBDA s, i : Match(s, i, Lit(s, i, p.re)))
  ELSE Search(query, LAMBDA s, i : AgoAt(s, i, p.re))

\* callable(date_func): every entry of time_patterns is a lambda
Callable(p) == TRUE

\* date_func(*args) evaluated when datetime.now() is clock: the formatted
\* date, or the exception the call raises
date_func(p, args, clock) ==
  IF Len(args) # p.params THEN [exc |-> "TypeError", value |-> ""]
  ELSE LET n == IF p.params = 0 THEN 1 ELSE IntOfDigits(args[1].g)
           ordinal == clock - n * p.days
       IN IF ordinal < 1 THEN [exc |-> "OverflowError", value |-> ""]
          ELSE [exc |-> "", value |-> strftime(ordinal)]

(***************************************************************************)
(* QueryConverter: the extraction passes                                   *)
(***************************************************************************)
_extract_work_item_type(query) == FirstKeyIn(work_item_types, query)

_extract_state(query) == FirstKeyIn(states, query)

PriorityWords == <<"critical", "high", "medium", "low">>

\* (critical|high|medium|low) at i: the first alternative that matches
WordAt(s, i) ==
  LET S == {k \in 1..Len(PriorityWords) : Lit(s, i, PriorityWords[k]) # 0}
  IN IF i = 0 \/ S = {} THEN 0 ELSE Lit(s, i, PriorityWords[Min(S)])

_extract_priority(query) ==
  LET p1 == Search(query, LAMBDA s, i :
              LET a == SkipSpaces(s, Lit(s, i, "priority")) IN Match(s, a, Digits(s, a)))
      p2 == Search(query, LAMBDA s, i :
              LET a == SkipSpaces(s, Lit(s, i, "priority")) IN Match(s, a, WordAt(s, a)))
      p3 == Search(query, LAMBDA s, i :
              LET w == WordAt(s, i)
              IN IF Lit(s, SkipSpaces(s, w), "priority") = 0 THEN NoMatch ELSE Match(s, i, w))
  IN IF p1.ok THEN DictGet(priorities, Lower(p1.g))
     ELSE IF p2.ok THEN DictGet(priorities, Lower(p2.g))
     ELSE IF p3.ok THEN DictGet(priorities, Lower(p3.g))
     ELSE <<>>

\* any(word in query for word in words)
AnyIn(words, query) == \E k \in 1..Len(words) : Contains(query, words[k])

\* the loop over the patterns: the stripped group of the first match
FirstGroup(matches) ==
  LET S == {k \in 1..Len(matches) : matches[k].ok}
  IN IF S = {} THEN <<>> ELSE <<Strip(matches[Min(S)].g)>>

\* the matches of the patterns of _extract_assigned_to
\* the patterns of _extract_assigned_to without 'by X'
AssignedPatterns_without_by(query) == <<
  Search(query, LAMBDA s, i : Prefix2Tokens(s, i, "assigned", "to")),
  Search(query, LAMBDA s, i : PrefixTokens(s, i, "assigned")),
  Search(query, LAMBDA s, i : PrefixTokens(s, i, "for")) >>

AssignedPatterns(query) == <<
  Search(query, LAMBDA s, i : Prefix2Tokens(s, i, "assigned", "to")),
  Search(query, LAMBDA s, i : PrefixTokens(s, i, "assigned")),
  Search(query, LAMBDA s, i : PrefixTokens(s, i, "by")),
  Search(query, LAMBDA s, i : PrefixTokens(s, i, "for")) >>

\* the special keywords overriding what a pattern matched
AssignedKeywords_override(query, found) ==
  IF AnyIn(<<"my", "mine", "me">>, query) THEN <<"me">>
  ELSE IF AnyIn(<<"unassigned", "nobody", "no one">>, query) THEN <<"unassigned">>
  ELSE found

\* the special keywords, checked when no pattern matched
AssignedKeywords(query, found) ==
  IF found # <<>> THEN found
  ELSE IF AnyIn(<<"my", "mine", "me">>, query) THEN <<"me">>
  ELSE IF AnyIn(<<"unassigned", "nobody", "no one">>, query) THEN <<"unassigned">>
  ELSE <<>>

\* _extract_assigned_to with the keyword checks ahead of the patterns
_extract_assigned_to_keywords_first(query) ==
  IF AnyIn(<<"my", "mine", "me">>, query) THEN <<"me">>
  ELSE IF AnyIn(<<"unassigned", "nobody", "no one">>, query) THEN <<"unassigned">>
  ELSE FirstGroup(AssignedPatterns(query))

_extract_assigned_to(query) == AssignedKeywords(query, FirstGroup(AssignedPatterns(query)))

_extract_created_by(query) ==
  FirstGroup(<<Search(query, LAMBDA s, i : Prefix2Tokens(s, i, "created", "by")),
               Search(query, LAMBDA s, i : Prefix2Tokens(s, i, "authored", "by"))>>)

\* the branches of an iteration with the last one taken whenever 'created'
\* is absent
TimeBranch_else(query, m, r) ==
  IF ~m.ok THEN [exc |-> "", conds |-> <<>>]
  ELSE IF Contains(query, "created")
    THEN [exc |-> r.exc, conds |-> <<"[System.CreatedDate] >= '" \o r.value \o "'">>]
  ELSE [exc |-> r.exc, conds |-> <<"[System.ChangedDate] >= '" \o r.value \o "'">>]

\* the branches of an iteration: m the match of the pattern, r the outcome
\* of the call of date_func, which only the two branches with a trigger word
\* make
TimeBranch(query, m, r) ==
  IF ~m.ok THEN [exc |-> "", conds |-> <<>>]
  ELSE IF Contains(query, "created")
    THEN [exc |-> r.exc, conds |-> <<"[System.CreatedDate] >= '" \o r.value \o "'">>]
  ELSE IF Contains(query, "changed") \/ Contains(query, "updated") \/ Contains(query, "modified")
    THEN [exc |-> r.exc, conds |-> <<"[System.ChangedDate] >= '" \o r.value \o "'">>]
  ELSE [exc |-> "", conds |-> <<>>]

\* the iteration for the entry p of time_patterns, m its match: date_func is
\* called without arguments when it is callable, with the match otherwise
TimeMatched(query, p, m, reading) ==
  TimeBranch(query, m, date_func(p, IF Callable(p) THEN <<>> ELSE <<m>>, reading))

\* one iteration of the loop of _extract_time_conditions for the k-th entry,
\* clock[k] the reading of datetime.now() in that iteration: the condition
\* appended (or none), or the exception raised
TimeStep(query, k, clock) ==
  TimeMatched(query, time_patterns[k], TimeSearch(time_patterns[k], query), clock[k])

RECURSIVE TimeLoop(_, _, _, _)
\* the loop goes on after an iteration whose outcome is r, unless it raised
TimeAppend(query, k, clock, conditions, r) ==
  IF r.exc # "" THEN [exc |-> r.exc, conds |-> <<>>]
  ELSE TimeLoop(query, k + 1, clock, conditions \o r.conds)

TimeLoop(query, k, clock, conditions) ==
  IF k > Len(time_patterns) THEN [exc |-> "", conds |-> conditions]
  ELSE TimeAppend(query, k, clock, conditions, TimeStep(query, k, clock))

_extract_time_conditions(query, clock) == TimeLoop(query, 1, clock, <<>>)


stop_words == {
  "show", "find", "get", "list", "all", "my", "the", "a", "an", "and", "or", "but",
  "in", "on", "at", "to", "for", "of", "with", "by", "from", "that", "which",
  "work", "item", "items", "assigned", "created", "changed", "updated", "modified",
  "priority", "state", "type", "title", "description", "tag", "tags", "area", "iteration" }

\* for key in tbl.keys(): s = s.replace(key, '')
RECURSIVE RemoveKeys(_, _, _)
RemoveKeys(s, tbl, k) ==
  IF s = "" \/ k > Len(tbl) THEN s ELSE RemoveKeys(Remove(s, tbl[k][1]), tbl, k + 1)

\* "([^"]+)" at i
QuotedAt(s, i) ==
  LET e == RunEndNot(s, i + 1, {"\""})
  IN IF Char(s, i) = "\"" /\ e > i + 1 /\ e <= Len(s)
     THEN [ok |-> TRUE, g |-> SubSeq(s, i + 1, e - 1), e |-> e + 1]
     ELSE NoMatch

\* \b\w+\b at i: a maximal run of word characters
WordRunAt(s, i) ==
  IF ~IsWordChar(Char(s, i)) \/ IsWordChar(Char(s, i - 1)) THEN NoMatch
  ELSE Match(s, i, RunEnd(s, i, WordChars))

_extract_search_terms(query) ==
  LET cleaned == RemoveKeys(RemoveKeys(query, work_item_types, 1), states, 1)
      quoted_terms == FindAll(cleaned, QuotedAt)
      words == FindAll(SubAll(cleaned, QuotedAt), WordRunAt)
      meaningful_words == SelectSeq(words, LAMBDA word : Lower(word) \notin stop_words /\ Len(word) > 2)
  IN quoted_terms \o meaningful_words

\* [^\s,]+ at a, as the group of a match
TokenMatch(s, a) == IF a = 0 THEN NoMatch ELSE Match(s, a, Token(s, a))

_extract_tags(query) ==
  LET t1 == FindAll(query, LAMBDA s, i :
              LET g == Lit(s, i, "tag")
              IN IF g = 0 THEN NoMatch
                 ELSE TokenMatch(s, SkipSpaces(s, RunEnd(s, g, {"g", "e", "d"}))))
      t2 == FindAll(query, LAMBDA s, i :
              TokenMatch(s, SkipSpaces(s, Lit(s, SkipSpaces(s, Lit(s, i, "with")), "tag"))))
      t3 == FindAll(query, LAMBDA s, i : TokenMatch(s, Lit(s, i, "#")))
  IN t1 \o t2 \o t3

_extract_area_path(query) ==
  FirstGroup(<<Search(query, LAMBDA s, i : Prefix2Tokens(s, i, "in", "area")),
               Search(query, LAMBDA s, i : PrefixTokens(s, i, "area"))>>)

_extract_iteration_path(query) ==
  FirstGroup(<<Search(query, LAMBDA s, i : Prefix2Tokens(s, i, "in", "iteration")),
               Search(query, LAMBDA s, i : PrefixTokens(s, i, "iteration")),
               Search(query, LAMBDA s, i : Prefix2Tokens(s, i, "in", "sprint")),
               Search(query, LAMBDA s, i : PrefixTokens(s, i, "sprint"))>>)

\* the condition a pass appends for an Optional[str] result
Cond(opt, before, after) == IF opt = <<>> THEN <<>> ELSE <<before \o opt[1] \o after>>

AssignedCond(assigned_to) ==
  IF assigned_to = <<>> THEN <<>>
  ELSE IF Lower(assigned_to[1]) \in {"me", "myself"} THEN <<"[System.AssignedTo] = @Me">>
  ELSE IF Lower(assigned_to[1]) \in {"unassigned", "nobody", "no one"} THEN <<"[System.AssignedTo] = ''">>
  ELSE <<"[System.AssignedTo] CONTAINS '" \o assigned_to[1] \o "'">>

CreatedCond(created_by) ==
  IF created_by = <<>> THEN <<>>
  ELSE IF Lower(created_by[1]) \in {"me", "myself"} THEN <<"[System.CreatedBy] = @Me">>
  ELSE <<"[System.CreatedBy] CONTAINS '" \o created_by[1] \o "'">>

RECURSIVE SearchConds(_)
SearchConds(terms) ==
  IF terms = <<>> THEN <<>>
  ELSE <<"[System.Title] CONTAINS '" \o terms[1] \o "'",
         "[System.Description] CONTAINS '" \o terms[1] \o "'">> \o SearchConds(Tail(terms))

SearchCond(search_terms) ==
  IF search_terms = <<>> THEN <<>>
  ELSE <<"(" \o Join(SearchConds(search_terms), " OR ") \o ")">>

TagConds(tags) == [k \in 1..Len(tags) |-> "[System.Tags] CONTAINS '" \o tags[k] \o "'"]

\* the conditions in the order the passes append them, time the outcome of
\* _extract_time_conditions
Conditions(query, time) ==
  IF time.exc # "" THEN [exc |-> time.exc, conds |-> <<>>]
  ELSE [exc |-> "",
        conds |->
             Cond(_extract_work_item_type(query), "[System.WorkItemType] = '", "'")
          \o Cond(_extract_state(query), "[System.State] = '", "'")
          \o Cond(_extract_priority(query), "[Microsoft.VSTS.Common.Priority] = ", "")
          \o AssignedCond(_extract_assigned_to(query))
          \o CreatedCond(_extract_created_by(query))
          \o time.conds
          \o SearchCond(_extract_search_terms(query))
          \o TagConds(_extract_tags(query))
          \o Cond(_extract_area_path(query), "[System.AreaPath] UNDER '", "'")
          \o Cond(_extract_iteration_path(query), "[System.IterationPath] UNDER '", "'")]

\* _parse_query_conditions: the conditions, or the exception a pass raises
_parse_query_conditions(query, clock) ==
  Conditions(query, _extract_time_conditions(query, clock))

select_clause == "SELECT [System.Id], [System.Title], [System.WorkItemType], [System.State], [System.AssignedTo], [System.CreatedDate], [System.ChangedDate]"
from_clause == "FROM WorkItems"
order_clause == "ORDER BY [System.ChangedDate] DESC"

\* Wiql with the WHERE clause appended whether or not a condition exists
Wiql_always_where(parsed) ==
  IF parsed.exc # ""
  THEN [status |-> "raised", exc |-> parsed.exc, wiql |-> "", where |-> <<>>]
  ELSE [status |-> "ok", exc |-> "",
        wiql |-> Join(<<select_clause, from_clause, "WHERE " \o Join(parsed.conds, " AND "),
                        order_clause>>, " "),
        where |-> parsed.conds]

\* the query string built from the outcome of _parse_query_conditions
Wiql(parsed) ==
  IF parsed.exc # ""
  THEN [status |-> "raised", exc |-> parsed.exc, wiql |-> "", where |-> <<>>]
  ELSE [status |-> "ok", exc |-> "",
        wiql |-> Join(<<select_clause, from_clause>>
                      \o (IF parsed.conds # <<>>
                          THEN <<"WHERE " \o Join(parsed.conds, " AND ")>> ELSE <<>>)
                      \o <<order_clause>>, " "),
        where |-> parsed.conds]

\* convert_to_wiql: status "ok" with the query string returned and the
\* where_conditions it was built from, or status "raised" with the exception
convert_to_wiql(natural_query, clock) ==
  Wiql(_parse_query_conditions(Strip(Lower(natural_query)), clock))


\* before convert_to_wiql is invoked
Idle == [status |-> "idle", exc |-> "", wiql |-> "", where |-> <<>>]

(***************************************************************************)
(* Python values.  A value is a record: t is its type, s the text of a     *)
(* str (or "inf"/"nan" for those floats), n the number of an int, the      *)
(* number of tenths of a float or the ordinal of a datetime at midnight,   *)
(* xs the items of a list of str or the (key, str) pairs of a dict.        *)
(***************************************************************************)
PyNone == [t |-> "NoneType", s |-> "", n |-> 0, xs |-> <<>>]
PyStr(s) == [t |-> "str", s |-> s, n |-> 0, xs |-> <<>>]
PyInt(n) == [t |-> "int", s |-> "", n |-> n, xs |-> <<>>]
PyFloat(tenths) == [t |-> "float", s |-> "", n |-> tenths, xs |-> <<>>]
PyInf == [t |-> "float", s |-> "inf", n |-> 0, xs |-> <<>>]
PyNan == [t |-> "float", s |-> "nan", n |-> 0, xs |-> <<>>]
PyDatetime(ordinal) == [t |-> "datetime", s |-> "", n |-> ordinal, xs |-> <<>>]
PyList(xs) == [t |-> "list", s |-> "", n |-> 0, xs |-> xs]
PyDict(pairs) == [t |-> "dict", s |-> "", n |-> 0, xs |-> pairs]

PyBool(b) == [t |-> "bool", s |-> "", n |-> IF b THEN 1 ELSE 0, xs |-> <<>>]

Returned(v) == [exc |-> "", value |-> v]
Raised(e) == [exc |-> e, value |-> PyNone]

Abs(n) == IF n < 0 THEN -n ELSE n

\* str(n) for an int
StrOfInt(n) == IF n < 0 THEN "-" \o ToString(-n) ELSE ToString(n)

\* repr(s) for a str without quotes or escapes
Repr(s) == "'" \o s \o "'"

\* datetime.isoformat()
isoformat(ordinal) == strftime(ordinal) \o "T00:00:00"

\* str(value)
PyStrOf(v) ==
  CASE v.t = "str" -> v.s
    [] v.t = "NoneType" -> "None"
    [] v.t = "int" -> StrOfInt(v.n)
    [] v.t = "float" ->
         IF v.s # "" THEN v.s
         ELSE (IF v.n < 0 THEN "-" ELSE "") \o ToString(Abs(v.n) \div 10) \o "." \o ToString(Abs(v.n) % 10)
    [] v.t = "datetime" -> strftime(v.n) \o " 00:00:00"
    [] v.t = "list" -> "[" \o Join([k \in 1..Len(v.xs) |-> Repr(v.xs[k])], ", ") \o "]"
    [] v.t = "dict" ->
         "{" \o Join([k \in 1..Len(v.xs) |-> Repr(v.xs[k][1]) \o ": " \o Repr(v.xs[k][2])], ", ") \o "}"

\* the sign a stripped numeric literal starts with
SignOf(body) == IF Char(body, 1) \in {"+", "-"} THEN Char(body, 1) ELSE ""

NotNumeral == [ok |-> FALSE, sign |-> "", whole |-> "", frac |-> ""]

\* the literal whose digits after the sign end before position d
NumeralAt(body, sign, d) ==
  IF d = 0 THEN NotNumeral
  ELSE IF d = Len(body) + 1
    THEN [ok |-> TRUE, sign |-> sign, whole |-> SubSeq(body, Len(sign) + 1, d - 1), frac |-> ""]
  ELSE IF d + 2 = Len(body) + 1 /\ Digits(body, Lit(body, d, ".")) = d + 2
    THEN [ok |-> TRUE, sign |-> sign, whole |-> SubSeq(body, Len(sign) + 1, d - 1),
          frac |-> Char(body, d + 1)]
  ELSE NotNumeral

NumeralOf(body, sign) == NumeralAt(body, sign, Digits(body, Len(sign) + 1))

\* the sign and the digits of a numeric literal: sign, whole, frac (frac is
\* "" without a decimal point); ok is FALSE for any other text
Numeral(str) == NumeralOf(Strip(str), SignOf(Strip(str)))

Signed(sign, n) == IF sign = "-" THEN -n ELSE n

\* int(str) given the numeral read from the string
IntOfNumeral(num) ==
  IF num.ok /\ num.frac = "" THEN Returned(PyInt(Signed(num.sign, IntOfDigits(num.whole))))
  ELSE Raised("ValueError")

\* int(value)
PyIntOf(v) ==
  CASE v.t = "int" -> Returned(v)
    [] v.t = "float" ->
         IF v.s = "inf" THEN Raised("OverflowError")
         ELSE IF v.s = "nan" THEN Raised("ValueError")
         ELSE Returned(PyInt(IF v.n < 0 THEN -((-v.n) \div 10) ELSE v.n \div 10))
    [] v.t = "str" -> IntOfNumeral(Numeral(v.s))
    [] OTHER -> Raised("TypeError")

\* float(str) given the numeral read from the string and the string
\* stripped and lowered
FloatOfNumeral(num, word) ==
  IF num.ok
  THEN Returned(PyFloat(Signed(num.sign, 10 * IntOfDigits(num.whole) + IntOfDigits(num.frac))))
  ELSE IF word \in {"inf", "+inf", "infinity", "+infinity"} THEN Returned(PyInf)
  ELSE IF word \in {"nan", "+nan", "-nan"} THEN Returned(PyNan)
  ELSE Raised("ValueError")

\* float(value)
PyFloatOf(v) ==
  CASE v.t = "int" -> Returned(PyFloat(10 * v.n))
    [] v.t = "float" -> Returned(v)
    [] v.t = "str" -> FloatOfNumeral(Numeral(v.s), Lower(Strip(v.s)))
    [] OTHER -> Raised("TypeError")

\* two decimal digits at i with a value in lo..hi: position after them
TwoDigits(s, i, lo, hi) ==
  IF i # 0 /\ Digits(s, i) >= i + 2
        /\ IntOfDigits(SubSeq(s, i, i + 1)) >= lo /\ IntOfDigits(SubSeq(s, i, i + 1)) <= hi
  THEN i + 2 ELSE 0

IsLeap(y) == (y % 4 = 0 /\ y % 100 # 0) \/ y % 400 = 0

DaysIn(y, m) ==
  IF m = 2 THEN (IF IsLeap(y) THEN 29 ELSE 28)
  ELSE IF m \in {4, 6, 9, 11} THEN 30 ELSE 31

\* YYYY at the start of s: the year, 0 when s does not start with four
\* digits followed by a non-digit
YearOf(s) == IF Digits(s, 1) = 5 THEN IntOfDigits(SubSeq(s, 1, 4)) ELSE 0

\* -MM at i of a date of year y, mm the position after MM: position after
\* the -DD that follows
DayEnd(s, y, mm) ==
  IF mm = 0 THEN 0
  ELSE TwoDigits(s, Lit(s, mm, "-"), 1, DaysIn(y, IntOfDigits(SubSeq(s, 6, 7))))

\* -MM-DD at 5 of a date of year y: position after it
DateEnd(s, y) == DayEnd(s, y, TwoDigits(s, Lit(s, 5, "-"), 1, 12))

\* HH:MM:SS at i: position after it
TimeEnd(s, i) ==
  TwoDigits(s, Lit(s, TwoDigits(s, Lit(s, TwoDigits(s, i, 0, 23), ":"), 0, 59), ":"), 0, 59)

\* HH:MM at i: position after it
ZoneEnd(s, i) == TwoDigits(s, Lit(s, TwoDigits(s, i, 0, 23), ":"), 0, 59)

\* the result for a date that ends before dd and a time that ends before time
IsoTimed(s, dd, time) ==
  IF dd = Len(s) + 1 THEN Returned(PyStr(s \o "T00:00:00"))
  ELSE IF dd = Len(s) \/ time = 0 THEN Raised("ValueError")
  ELSE IF time = Len(s) + 1 THEN Returned(PyStr(SubSeq(s, 1, 10) \o "T" \o SubSeq(s, 12, Len(s))))
  ELSE IF Char(s, time) \in {"+", "-"} /\ ZoneEnd(s, time + 1) = Len(s) + 1
    THEN Returned(PyStr(SubSeq(s, 1, 10) \o "T" \o SubSeq(s, 12, Len(s))))
  ELSE Raised("ValueError")

IsoDated(s, y, dd) ==
  IF y = 0 \/ dd = 0 THEN Raised("ValueError") ELSE IsoTimed(s, dd, TimeEnd(s, dd + 1))

IsoYear(s, y) == IsoDated(s, y, DateEnd(s, y))

\* datetime.fromisoformat(s).isoformat() for YYYY-MM-DD, optionally followed
\* by a separator and HH:MM:SS, optionally followed by +HH:MM; ValueError
\* for any other text
fromisoformat(s) == IsoYear(s, YearOf(s))

\* s.replace(old, new) for a one-character old
RECURSIVE Replace(_, _, _)
Replace(s, old, new) ==
  IF Len(s) <= 1 THEN (IF s = old THEN new ELSE s)
  ELSE LET h == Len(s) \div 2
       IN Replace(SubSeq(s, 1, h), old, new) \o Replace(SubSeq(s, h + 1, Len(s)), old, new)

(***************************************************************************)
(* dict: a sequence of (key, value) pairs with distinct keys, in insertion *)
(* order                                                                   *)
(***************************************************************************)
HasKey(d, key) == \E i \in 1..Len(d) : d[i][1] = key

\* d[key] = value
DictSet(d, key, value) ==
  IF HasKey(d, key)
  THEN [i \in 1..Len(d) |-> IF d[i][1] = key THEN <<key, value>> ELSE d[i]]
  ELSE Append(d, <<key, value>>)

(***************************************************************************)
(* FieldMapper                                                             *)
(***************************************************************************)
field_mappings == <<
  <<"id", "System.Id">>,
  <<"title", "System.Title">>,
  <<"description", "System.Description">>,
  <<"state", "System.State">>,
  <<"reason", "System.Reason">>,
  <<"assigned_to", "System.AssignedTo">>,
  <<"created_by", "System.CreatedBy">>,
  <<"changed_by", "System.ChangedBy">>,
  <<"created_date", "System.CreatedDate">>,
  <<"changed_date", "System.ChangedDate">>,
  <<"work_item_type", "System.WorkItemType">>,
  <<"area_path", "System.AreaPath">>,
  <<"iteration_path", "System.IterationPath">>,
  <<"tags", "System.Tags">>,
  <<"history", "System.History">>,
  <<"rev", "System.Rev">>,
  <<"authorized_date", "System.AuthorizedDate">>,
  <<"watermark", "System.Watermark">>,
  <<"comment_count", "System.CommentCount">>,
  <<"hyperlink_count", "System.HyperLinkCount">>,
  <<"attachment_count", "System.AttachedFileCount">>,
  <<"external_link_count", "System.ExternalLinkCount">>,
  <<"related_link_count", "System.RelatedLinkCount">>,
  <<"node_name", "System.NodeName">>,
  <<"area_id", "System.AreaId">>,
  <<"area_level1", "System.AreaLevel1">>,
  <<"area_level2", "System.AreaLevel2">>,
  <<"area_level3", "System.AreaLevel3">>,
  <<"area_level4", "System.AreaLevel4">>,
  <<"iteration_id", "System.IterationId">>,
  <<"iteration_level1", "System.IterationLevel1">>,
  <<"iteration_level2", "System.IterationLevel2">>,
  <<"iteration_level3", "System.IterationLevel3">>,
  <<"iteration_level4", "System.IterationLevel4">>,
  <<"priority", "Microsoft.VSTS.Common.Priority">>,
  <<"severity", "Microsoft.VSTS.Common.Severity">>,
  <<"value_area", "Microsoft.VSTS.Common.ValueArea">>,
  <<"risk", "Microsoft.VSTS.Common.Risk">>,
  <<"stack_rank", "Microsoft.VSTS.Common.StackRank">>,
  <<"business_value", "Microsoft.VSTS.Common.BusinessValue">>,
  <<"time_criticality", "Microsoft.VSTS.Common.TimeCriticality">>,
  <<"triage", "Microsoft.VSTS.Common.Triage">>,
  <<"acceptance_criteria", "Microsoft.VSTS.Common.AcceptanceCriteria">>,
  <<"activity", "Microsoft.VSTS.Common.Activity">>,
  <<"discipline", "Microsoft.VSTS.Common.Discipline">>,
  <<"resolution", "Microsoft.VSTS.Common.Resolution">>,
  <<"state_change_date", "Microsoft.VSTS.Common.StateChangeDate">>,
  <<"activated_date", "Microsoft.VSTS.Common.ActivatedDate">>,
  <<"activated_by", "Microsoft.VSTS.Common.ActivatedBy">>,
  <<"resolved_date", "Microsoft.VSTS.Common.ResolvedDate">>,
  <<"resolved_by", "Microsoft.VSTS.Common.ResolvedBy">>,
  <<"resolved_reason", "Microsoft.VSTS.Common.ResolvedReason">>,
  <<"closed_date", "Microsoft.VSTS.Common.ClosedDate">>,
  <<"closed_by", "Microsoft.VSTS.Common.ClosedBy">>,
  <<"rating", "Microsoft.VSTS.Common.Rating">>,
  <<"story_points", "Microsoft.VSTS.Scheduling.StoryPoints">>,
  <<"effort", "Microsoft.VSTS.Scheduling.Effort">>,
  <<"original_estimate", "Microsoft.VSTS.Scheduling.OriginalEstimate">>,
  <<"remaining_work", "Microsoft.VSTS.Scheduling.RemainingWork">>,
  <<"completed_work", "Microsoft.VSTS.Scheduling.CompletedWork">>,
  <<"start_date", "Microsoft.VSTS.Scheduling.StartDate">>,
  <<"finish_date", "Microsoft.VSTS.Scheduling.FinishDate">>,
  <<"due_date", "Microsoft.VSTS.Scheduling.DueDate">>,
  <<"target_date", "Microsoft.VSTS.Scheduling.TargetDate">>,
  <<"baseline_work", "Microsoft.VSTS.Scheduling.BaselineWork">>,
  <<"size", "Microsoft.VSTS.Scheduling.Size">>,
  <<"integration_build", "Microsoft.VSTS.Build.IntegrationBuild">>,
  <<"found_in", "Microsoft.VSTS.Build.FoundIn">>,
  <<"test_suite_type", "Microsoft.VSTS.TCM.TestSuiteType">>,
  <<"test_suite_type_id", "Microsoft.VSTS.TCM.TestSuiteTypeId">>,
  <<"query_text", "Microsoft.VSTS.TCM.QueryText">>,
  <<"parameters", "Microsoft.VSTS.TCM.Parameters">>,
  <<"local_data_source", "Microsoft.VSTS.TCM.LocalDataSource">>,
  <<"automated_test_name", "Microsoft.VSTS.TCM.AutomatedTestName">>,
  <<"automated_test_storage", "Microsoft.VSTS.TCM.AutomatedTestStorage">>,
  <<"automated_test_id", "Microsoft.VSTS.TCM.AutomatedTestId">>,
  <<"automated_test_type", "Microsoft.VSTS.TCM.AutomatedTestType">>,
  <<"steps", "Microsoft.VSTS.TCM.Steps">>,
  <<"repro_steps", "Microsoft.VSTS.TCM.ReproSteps">>,
  <<"system_info", "Microsoft.VSTS.TCM.SystemInfo">> >>

\* Reversed with every value paired with the key of the next item
Reversed_shifted(tbl) ==
  [i \in 1..Len(tbl) |-> <<tbl[i][2], tbl[(i % Len(tbl)) + 1][1]>>]

\* {v: k for k, v in tbl.items()}: a later key replaces an earlier one with
\* the same value, so every value is paired with its last key
Reversed(tbl) ==
  [i \in 1..Len(tbl) |-> <<tbl[i][2], tbl[Max({j \in 1..Len(tbl) : tbl[j][2] = tbl[i][2]})][1]>>]

reverse_mappings == Reversed(field_mappings)

\* dict.get(key, default)
GetOr(tbl, key, default) ==
  LET r == DictGet(tbl, key) IN IF r = <<>> THEN default ELSE r[1]

\* get_field_reference looking the name up as given
get_field_reference_exact(field_name) == GetOr(field_mappings, field_name, field_name)

get_field_reference(field_name) == GetOr(field_mappings, Lower(field_name), field_name)

get_field_name(field_reference) == GetOr(reverse_mappings, field_reference, field_reference)

field_types == <<
  <<"System.Id", "integer">>,
  <<"System.Title", "string">>,
  <<"System.Description", "html">>,
  <<"System.State", "string">>,
  <<"System.AssignedTo", "identity">>,
  <<"System.CreatedBy", "identity">>,
  <<"System.ChangedBy", "identity">>,
  <<"System.CreatedDate", "datetime">>,
  <<"System.ChangedDate", "datetime">>,
  <<"System.WorkItemType", "string">>,
  <<"System.AreaPath", "treepath">>,
  <<"System.IterationPath", "treepath">>,
  <<"System.Tags", "plaintext">>,
  <<"Microsoft.VSTS.Common.Priority", "integer">>,
  <<"Microsoft.VSTS.Common.Severity", "string">>,
  <<"Microsoft.VSTS.Scheduling.StoryPoints", "double">>,
  <<"Microsoft.VSTS.Scheduling.Effort", "double">>,
  <<"Microsoft.VSTS.Scheduling.OriginalEstimate", "double">>,
  <<"Microsoft.VSTS.Scheduling.RemainingWork", "double">>,
  <<"Microsoft.VSTS.Scheduling.CompletedWork", "double">>,
  <<"Microsoft.VSTS.Scheduling.StartDate", "datetime">>,
  <<"Microsoft.VSTS.Scheduling.FinishDate", "datetime">>,
  <<"Microsoft.VSTS.Scheduling.DueDate", "datetime">>,
  <<"Microsoft.VSTS.Common.AcceptanceCriteria", "html">>,
  <<"Microsoft.VSTS.TCM.ReproSteps", "html">>,
  <<"Microsoft.VSTS.TCM.Steps", "html">>,
  <<"Microsoft.VSTS.Common.BusinessValue", "integer">>,
  <<"Microsoft.VSTS.Common.TimeCriticality", "double">>,
  <<"Microsoft.VSTS.Common.StackRank", "double">> >>

get_field_type(field_reference) == GetOr(field_types, field_reference, "string")

\* the inner try of the datetime branch: dt the outcome of fromisoformat
Reformatted(value, dt) == IF dt.exc = "ValueError" THEN Returned(value) ELSE dt

\* the body of the try block of format_field_value
Converted(field_type, value) ==
  CASE field_type = "integer" -> PyIntOf(value)
    [] field_type = "double" -> PyFloatOf(value)
    [] field_type = "datetime" ->
         IF value.t = "datetime" THEN Returned(PyStr(isoformat(value.n)))
         ELSE IF value.t = "str"
           THEN Reformatted(value, fromisoformat(Replace(value.s, "Z", "+00:00")))
         ELSE Returned(PyNone)
    [] field_type \in {"string", "plaintext", "html", "treepath", "identity"} ->
         Returned(PyStr(PyStrOf(value)))
    [] OTHER -> Returned(value)

\* except (ValueError, TypeError): return value
Excepted(value, converted) ==
  IF converted.exc \in {"ValueError", "TypeError"} THEN Returned(value) ELSE converted

\* format_field_value: the value returned, or the exception raised
format_field_value(field_reference, value) ==
  IF value.t = "NoneType" THEN Returned(PyNone)
  ELSE Excepted(value, Converted(get_field_type(field_reference), value))

(***************************************************************************)
(* FieldMapper: the fields of a work item type                             *)
(***************************************************************************)
work_item_type_fields == <<
  <<"Bug", <<"Microsoft.VSTS.TCM.ReproSteps", "Microsoft.VSTS.TCM.SystemInfo",
             "Microsoft.VSTS.Common.Severity", "Microsoft.VSTS.Common.Priority",
             "Microsoft.VSTS.Build.FoundIn", "Microsoft.VSTS.Build.IntegrationBuild">> >>,
  <<"Task", <<"Microsoft.VSTS.Scheduling.RemainingWork", "Microsoft.VSTS.Scheduling.CompletedWork",
              "Microsoft.VSTS.Scheduling.OriginalEstimate", "Microsoft.VSTS.Common.Activity",
              "Microsoft.VSTS.Common.Discipline">> >>,
  <<"User Story", <<"Microsoft.VSTS.Scheduling.StoryPoints", "Microsoft.VSTS.Common.AcceptanceCriteria",
                    "Microsoft.VSTS.Common.Priority", "Microsoft.VSTS.Common.ValueArea",
                    "Microsoft.VSTS.Common.Risk", "Microsoft.VSTS.Common.BusinessValue">> >>,
  <<"Feature", <<"Microsoft.VSTS.Scheduling.Effort", "Microsoft.VSTS.Common.BusinessValue",
                 "Microsoft.VSTS.Common.TimeCriticality", "Microsoft.VSTS.Scheduling.TargetDate",
                 "Microsoft.VSTS.Common.ValueArea">> >>,
  <<"Epic", <<"Microsoft.VSTS.Scheduling.Effort", "Microsoft.VSTS.Common.BusinessValue",
              "Microsoft.VSTS.Scheduling.StartDate", "Microsoft.VSTS.Scheduling.TargetDate",
              "Microsoft.VSTS.Common.ValueArea">> >>,
  <<"Test Case", <<"Microsoft.VSTS.TCM.Steps", "Microsoft.VSTS.TCM.Parameters",
                   "Microsoft.VSTS.TCM.LocalDataSource", "Microsoft.VSTS.TCM.AutomatedTestName",
                   "Microsoft.VSTS.TCM.AutomatedTestStorage", "Microsoft.VSTS.TCM.AutomatedTestType",
                   "Microsoft.VSTS.Common.Priority">> >> >>

get_work_item_type_fields(work_item_type) == GetOr(work_item_type_fields, work_item_type, <<>>)

\* field_reference in type_fields
InList(x, xs) == \E i \in 1..Len(xs) : xs[i] = x

\* validate_field_for_work_item_type with the type's list consulted for
\* every field
validate_field_by_list(field_reference, work_item_type) ==
  InList(field_reference, get_work_item_type_fields(work_item_type))

validate_field_for_work_item_type(field_reference, work_item_type) ==
  IF StartsAt(field_reference, 1, "System.") THEN TRUE
  ELSE InList(field_reference, get_work_item_type_fields(work_item_type))

\* get_required_fields with the same list for every type
get_required_fields_title_only(work_item_type) == <<"System.Title">>

get_required_fields(work_item_type) ==
  <<"System.Title">>
  \o (IF work_item_type = "Bug" THEN <<"Microsoft.VSTS.TCM.ReproSteps">>
      ELSE IF work_item_type = "Test Case" THEN <<"Microsoft.VSTS.TCM.Steps">>
      ELSE <<>>)

UserFields == {"System.AssignedTo", "System.CreatedBy", "System.ChangedBy"}

DateFields == {"System.CreatedDate", "System.ChangedDate", "Microsoft.VSTS.Scheduling.StartDate",
               "Microsoft.VSTS.Scheduling.FinishDate", "Microsoft.VSTS.Scheduling.DueDate"}

\* the body of the loop of map_fields_for_creation for one item
MapEntry(mapped_fields, field_name, field_value) ==
  LET field_ref == get_field_reference(field_name)
  IN IF field_value.t = "NoneType" THEN mapped_fields
     ELSE IF field_ref \in UserFields
       THEN IF field_value.t = "str" THEN DictSet(mapped_fields, field_ref, field_value)
            ELSE IF field_value.t = "dict" /\ HasKey(field_value.xs, "displayName")
              THEN DictSet(mapped_fields, field_ref, PyStr(GetOr(field_value.xs, "displayName", "")))
            ELSE mapped_fields
     ELSE IF field_ref = "System.Tags"
       THEN IF field_value.t = "list"
            THEN DictSet(mapped_fields, field_ref, PyStr(Join(field_value.xs, "; ")))
            ELSE DictSet(mapped_fields, field_ref, PyStr(PyStrOf(field_value)))
     ELSE IF field_ref \in DateFields
       THEN IF field_value.t = "datetime"
            THEN DictSet(mapped_fields, field_ref, PyStr(isoformat(field_value.n)))
            ELSE IF field_value.t = "str" THEN DictSet(mapped_fields, field_ref, field_value)
            ELSE mapped_fields
     ELSE DictSet(mapped_fields, field_ref, field_value)

RECURSIVE MapLoop(_, _, _)
MapLoop(fields, i, mapped_fields) ==
  IF i > Len(fields) THEN mapped_fields
  ELSE MapLoop(fields, i + 1, MapEntry(mapped_fields, fields[i][1], fields[i][2]))

map_fields_for_creation(fields, work_item_type) == MapLoop(fields, 1, <<>>)


(***************************************************************************)
(* The transport client: the JSON patch document a create or an update     *)
(* request carries to the backend                                          *)
(***************************************************************************)
PatchPath(field_name) ==
  IF StartsAt(field_name, 1, "/fields/") THEN field_name ELSE "/fields/" \o field_name

PatchOps(op, fields) ==
  [i \in 1..Len(fields) |-> [op |-> op, path |-> PatchPath(fields[i][1]), value |-> fields[i][2]]]

\* AdoClient.create_work_item: the patch document posted
create_patch(title, fields) ==
  <<[op |-> "add", path |-> "/fields/System.Title", value |-> PyStr(title)]>> \o PatchOps("add", fields)

\* AdoClient.update_work_item: the patch document sent
update_patch(fields) == PatchOps("replace", fields)

(***************************************************************************)
(* The tools: the field dictionary of a create and of an update request    *)
(***************************************************************************)
\* valid_types with a type the backend does not know
valid_types_widget == {"Bug", "Task", "User Story", "Feature", "Epic", "Test Case", "Issue", "Widget"}

valid_types == {"Bug", "Task", "User Story", "Feature", "Epic", "Test Case", "Issue"}

\* the loop of WorkItemTools.update_work_item: the mapped fields, or the
\* exception format_field_value raises
RECURSIVE UpdateLoop(_, _, _)
UpdateEntry(fields, i, mapped_fields, field_ref, formatted_value) ==
  IF formatted_value.exc # "" THEN [exc |-> formatted_value.exc, fields |-> <<>>]
  ELSE UpdateLoop(fields, i + 1, DictSet(mapped_fields, field_ref, formatted_value.value))

UpdateLoop(fields, i, mapped_fields) ==
  IF i > Len(fields) THEN [exc |-> "", fields |-> mapped_fields]
  ELSE UpdateEntry(fields, i, mapped_fields, get_field_reference(fields[i][1]),
                   format_field_value(get_field_reference(fields[i][1]), fields[i][2]))

(***************************************************************************)
(* AdoClient: the requests made on the backend                             *)
(***************************************************************************)
\* the status the backend answers a request with; 0: no answer (aiohttp.ClientError)
Statuses == {0, 200, 401, 403, 404, 500}

\* AdoClient._make_request: the message of the exception it raises, "" when it returns the response
_make_request(status) ==
  CASE status = 0 -> "Network error: "
    [] status = 401 -> "Authentication failed. Check your Personal Access Token."
    [] status = 403 -> "Access denied. Check your permissions."
    [] status = 404 -> "Resource not found."
    [] status >= 400 -> "API request failed with status " \o StrOfInt(status) \o ": "
    [] OTHER -> ""

\* a request made on the backend and the status it was answered with
Exchange(method, status) == [method |-> method, status |-> status]

\* AdoClient.get_work_item: the work item, None for every exception of the request
AdoClient_get_work_item(status) == IF _make_request(status) # "" THEN PyNone ELSE PyStr("WorkItem")

\* AdoClient.delete_work_item: True, False for every exception of the request
AdoClient_delete_work_item(status) == _make_request(status) = ""

(***************************************************************************)
(* The calls made on the field mapper and on the tools                     *)
(***************************************************************************)
Call(op, name, value, fields, type) ==
  [op |-> op, name |-> name, value |-> value, fields |-> fields, type |-> type]

NoCall == Call("none", "", PyNone, <<>>, "")

\* no batch is given to create_multiple_work_items
NoBatch == [items |-> <<>>, results |-> <<>>, errors |-> <<>>, created_count |-> 0, error_count |-> 0]

NoReturn == [status |-> "idle", exc |-> "", value |-> PyNone, sent |-> <<>>, success |-> FALSE]

\* the result dictionary of a tool: "success", "error", "message"
ToolResult(success, error, message) ==
  [NoReturn EXCEPT !.status = "ok", !.success = success, !.exc = error, !.value = PyStr(message)]

(***************************************************************************)
(* McpServer: the tools registered at construction                         *)
(***************************************************************************)
_register_tools == <<
  <<"list_projects", [name |-> "list_projects",
      description |-> "List all projects in the Azure DevOps organization",
      inputSchema |-> [type |-> "object", required |-> <<"connection">>]]>>,
  <<"get_project", [name |-> "get_project",
      description |-> "Get specific project information",
      inputSchema |-> [type |-> "object", required |-> <<"connection", "project_name">>]]>>,
  <<"test_connection", [name |-> "test_connection",
      description |-> "Test connection to Azure DevOps",
      inputSchema |-> [type |-> "object", required |-> <<"connection">>]]>>,
  <<"search_work_items", [name |-> "search_work_items",
      description |-> "Search work items using natural language query",
      inputSchema |-> [type |-> "object", required |-> <<"connection", "query">>]]>>,
  <<"query_work_items_wiql", [name |-> "query_work_items_wiql",
      description |-> "Execute WIQL query directly",
      inputSchema |-> [type |-> "object", required |-> <<"connection", "wiql">>]]>>,
  <<"get_work_item", [name |-> "get_work_item",
      description |-> "Get a specific work item by ID",
      inputSchema |-> [type |-> "object", required |-> <<"connection", "work_item_id">>]]>>,
  <<"get_my_work_items", [name |-> "get_my_work_items",
      description |-> "Get work items assigned to the current user",
      inputSchema |-> [type |-> "object", required |-> <<"connection">>]]>>,
  <<"create_work_item", [name |-> "create_work_item",
      description |-> "Create a new work item",
      inputSchema |-> [type |-> "object", required |-> <<"connection", "work_item_type", "title">>]]>>,
  <<"create_bug", [name |-> "create_bug",
      description |-> "Create a bug work item with bug-specific fields",
      inputSchema |-> [type |-> "object", required |-> <<"connection", "title", "repro_steps">>]]>>,
  <<"create_user_story", [name |-> "create_user_story",
      description |-> "Create a user story work item",
      inputSchema |-> [type |-> "object", required |-> <<"connection", "title">>]]>>,
  <<"create_task", [name |-> "create_task",
      description |-> "Create a task work item",
      inputSchema |-> [type |-> "object", required |-> <<"connection", "title">>]]>>,
  <<"create_multiple_work_items", [name |-> "create_multiple_work_items",
      description |-> "Create multiple work items in batch",
      inputSchema |-> [type |-> "object", required |-> <<"connection", "work_items">>]]>>,
  <<"update_work_item", [name |-> "update_work_item",
      description |-> "Update an existing work item",
      inputSchema |-> [type |-> "object", required |-> <<"connection", "work_item_id", "fields">>]]>>,
  <<"get_work_items_by_iteration", [name |-> "get_work_items_by_iteration",
      description |-> "Get all work items in a specific iteration",
      inputSchema |-> [type |-> "object", required |-> <<"connection", "iteration_path">>]]>>,
  <<"get_burndown_data", [name |-> "get_burndown_data",
      description |-> "Get burndown chart data for an iteration",
      inputSchema |-> [type |-> "object", required |-> <<"connection", "iteration_path">>]]>>,
  <<"get_recent_work_items", [name |-> "get_recent_work_items",
      description |-> "Get work items changed in the last N days",
      inputSchema |-> [type |-> "object", required |-> <<"connection">>]]>>,
  <<"get_query_suggestions", [name |-> "get_query_suggestions",
      description |-> "Get query suggestions for natural language search",
      inputSchema |-> [type |-> "object", required |-> <<>>]]>> >>

\* a JSON-RPC response: the keys "result" and "error" are present or not
NoResult == [kind |-> "none", tools |-> <<>>, success |-> FALSE]

ErrorResponse(request_id, code, message) ==
  [id |-> request_id, has_result |-> FALSE, result |-> NoResult,
   has_error |-> TRUE, code |-> code, message |-> message]

ResultResponse(request_id, result) ==
  [id |-> request_id, has_result |-> TRUE, result |-> result,
   has_error |-> FALSE, code |-> 0, message |-> ""]

\* what a handler hands back: the flag of the server, the response, or the
\* exception it raised
Handled(flag, response) == [initialized |-> flag, exc |-> "", response |-> response]

\* _handle_initialize leaving the flag as it was
_handle_initialize_no_flag(flag, request_id) ==
  Handled(flag, ResultResponse(request_id, [NoResult EXCEPT !.kind = "initialize"]))

_handle_initialize(flag, request_id) ==
  Handled(TRUE, ResultResponse(request_id, [NoResult EXCEPT !.kind = "initialize"]))

_handle_list_tools(flag, registered, request_id) ==
  IF ~flag THEN Handled(flag, ErrorResponse(request_id, -32002, "Server not initialized"))
  ELSE Handled(flag, ResultResponse(request_id,
         [NoResult EXCEPT !.kind = "tools",
                          !.tools = [i \in 1..Len(registered) |->
                                       [name |-> registered[i][2].name,
                                        description |-> registered[i][2].description,
                                        inputSchema |-> registered[i][2].inputSchema]]]))

\* tool_name in self.tools
Registered(registered, tool_name) ==
  tool_name.t = "str" /\ \E i \in 1..Len(registered) : registered[i][1] = tool_name.s

\* _handle_tool_call without the test of the flag
_handle_tool_call_ungated(flag, registered, request_id, params, accepted) ==
  IF params.null THEN [Handled(flag, NoResult) EXCEPT !.exc = "AttributeError"]
  ELSE IF ~Registered(registered, params.name)
    THEN Handled(flag, ErrorResponse(request_id, -32601, "Tool not found: " \o PyStrOf(params.name)))
  ELSE Handled(flag, ResultResponse(request_id,
         [NoResult EXCEPT !.kind = "tool", !.success = accepted]))

\* _execute_tool catches what the tool raises: accepted says whether the
\* tool reports success
_handle_tool_call(flag, registered, request_id, params, accepted) ==
  IF ~flag THEN Handled(flag, ErrorResponse(request_id, -32002, "Server not initialized"))
  ELSE IF params.null THEN [Handled(flag, NoResult) EXCEPT !.exc = "AttributeError"]
  ELSE IF ~Registered(registered, params.name)
    THEN Handled(flag, ErrorResponse(request_id, -32601, "Tool not found: " \o PyStrOf(params.name)))
  ELSE Handled(flag, ResultResponse(request_id,
         [NoResult EXCEPT !.kind = "tool", !.success = accepted]))

\* the except clause of handle_request
Caught(flag, request_id, h) ==
  IF h.exc = "" THEN h
  ELSE Handled(flag, ErrorResponse(request_id, -32603, "Internal error"))

\* handle_request answering an unknown method with the code of an invalid request
handle_request_invalid(flag, registered, request, accepted) ==
  IF request.method = PyStr("initialize") THEN _handle_initialize(flag, request.id)
  ELSE IF request.method = PyStr("tools/list") THEN _handle_list_tools(flag, registered, request.id)
  ELSE IF request.method = PyStr("tools/call")
    THEN Caught(flag, request.id, _handle_tool_call(flag, registered, request.id, request.params, accepted))
  ELSE Handled(flag, ErrorResponse(request.id, -32600, "Method not found: " \o PyStrOf(request.method)))

handle_request(flag, registered, request, accepted) ==
  IF request.method = PyStr("initialize") THEN _handle_initialize(flag, request.id)
  ELSE IF request.method = PyStr("tools/list") THEN _handle_list_tools(flag, registered, request.id)
  ELSE IF request.method = PyStr("tools/call")
    THEN Caught(flag, request.id, _handle_tool_call(flag, registered, request.id, request.params, accepted))
  ELSE Handled(flag, ErrorResponse(request.id, -32601, "Method not found: " \o PyStrOf(request.method)))

\* before the loop of _extract_time_conditions is entered
NoLoop == [k |-> 0, conditions |-> <<>>]

\* the attributes of the instances after __init__
Constructed ==
  [work_item_types |-> work_item_types, states |-> states, priorities |-> priorities,
   time_patterns |-> time_patterns, field_mappings |-> field_mappings,
   reverse_mappings |-> reverse_mappings, work_item_type_fields |-> work_item_type_fields]

Threads == 1..MaxThreads

NoThread == [pc |-> "idle", call |-> NoCall, ret |-> NoReturn]

\* the field names given to get_field_reference
Names == {"title", "Title", "TITLE", "assigned_to", "Assigned_To", "story_points", "tags",
          "System.Title", "system.title", "Custom.Field", "custom", ""}

\* the field references given to get_field_name
References == {field_mappings[i][2] : i \in 1..Len(field_mappings)} \cup {"Custom.Field", "title"}

\* the field references given to format_field_value: one of each field type
TypedReferences == {"System.Id", "Microsoft.VSTS.Scheduling.Effort", "System.CreatedDate",
                    "System.Title", "System.Tags", "System.Description", "System.AreaPath",
                    "System.AssignedTo", "Custom.Field"}

\* the values of a field: what a JSON request can carry, and a datetime
Values == {
  PyStr("T"), PyStr("abc"), PyStr("7"), PyStr("7.5"), PyStr(" 12 "),
  PyStr("2024-02-29"), PyStr("2024-03-01T10:00:00Z"),
  PyInt(5), PyInt(-3), PyFloat(79), PyInf, PyNan,
  PyDatetime(StartDay),
  PyList(<<"a", "b">>), PyList(<<>>),
  PyDict(<<<<"displayName", "Jane">>>>), PyDict(<<<<"id", "7">>>>) }

\* the keys and values of the field dictionaries given to the tools
FieldKeys == {"title", "Title", "assigned_to", "tags", "priority", "created_date", "Custom.Field"}

FieldValues == {
  PyNone, PyStr("T"), PyStr("2"), PyInt(5), PyInf, PyDatetime(StartDay),
  PyList(<<"a", "b">>), PyDict(<<<<"displayName", "Jane">>>>), PyDict(<<<<"id", "7">>>>) }

\* the dictionaries of n items with distinct keys
RECURSIVE DictsOf(_)
DictsOf(n) ==
  IF n = 0 THEN {<<>>}
  ELSE {Append(d, <<k, v>>) : d \in {e \in DictsOf(n - 1) : TRUE}, k \in FieldKeys, v \in FieldValues}

ExampleDicts == {
  << <<"title", PyStr("T")>>, <<"assigned_to", PyNone>> >>,
  << <<"priority", PyStr("2")>>, <<"tags", PyList(<<"a", "b">>)>> >>,
  << <<"title", PyStr("T")>>, <<"Title", PyStr("U")>> >> }

FieldDicts ==
  ExampleDicts \cup
  UNION { {d \in DictsOf(n) : \A i, j \in 1..n : d[i][1] = d[j][1] => i = j} : n \in 0..MaxEntries }

WorkItemTypes == {"Bug", "Task", "Widget"}

\* the work item types given to the type queries of the field mapper
QueriedTypes == valid_types \cup {"Widget", "bug", "test case", ""}

\* the field references given to validate_field_for_work_item_type
ValidatedReferences == {"System.Title", "System.Unknown", "system.title", "SystemInfo", "",
                        "Microsoft.VSTS.TCM.ReproSteps", "Microsoft.VSTS.TCM.Steps",
                        "Microsoft.VSTS.Common.Priority", "Microsoft.VSTS.Scheduling.Effort",
                        "Custom.Field"}

Calls ==
       {Call("get_field_reference", x, PyNone, <<>>, "") : x \in Names}
  \cup {Call("get_field_name", q, PyNone, <<>>, "") : q \in References}
  \cup {Call("format_field_value", q, v, <<>>, "") : q \in TypedReferences, v \in Values \cup {PyNone}}
  \cup {Call("create_work_item", "T", PyNone, d, w) : d \in FieldDicts, w \in WorkItemTypes}
  \cup {Call("update_work_item", "", PyNone, d, "") : d \in FieldDicts}
  \cup {Call("get_work_item_type_fields", "", PyNone, <<>>, w) : w \in QueriedTypes}
  \cup {Call("get_required_fields", "", PyNone, <<>>, w) : w \in QueriedTypes}
  \cup {Call("validate_field_for_work_item_type", q, PyNone, <<>>, w) :
          q \in ValidatedReferences, w \in QueriedTypes}

InitCatalog ==
  /\ now = StartDay
  /\ text = ""
  /\ out = Idle
  /\ called = 0
  /\ fcall \in Calls
  /\ fret = NoReturn
  /\ tables = Constructed
  /\ threads = [t \in Threads |-> NoThread]
  /\ loop = NoLoop
  /\ initialized = FALSE
  /\ tools = _register_tools
  /\ running = TRUE
  /\ log = <<>>
  /\ http = <<>>
  /\ batch = NoBatch

Pending(op) == fcall.op = op /\ fret.status = "idle"

Return(v) == [NoReturn EXCEPT !.status = "ok", !.value = v]

GetFieldReference ==
  /\ Pending("get_field_reference")
  /\ fret' = Return(PyStr(get_field_reference(fcall.name)))
  /\ UNCHANGED <<now, text, out, called, fcall, tables, threads, loop, initialized, tools, running, log, http, batch>>

GetFieldName ==
  /\ Pending("get_field_name")
  /\ fret' = Return(PyStr(get_field_name(fcall.name)))
  /\ UNCHANGED <<now, text, out, called, fcall, tables, threads, loop, initialized, tools, running, log, http, batch>>

FormatFieldValue ==
  /\ Pending("format_field_value")
  /\ \E r \in {format_field_value(fcall.name, fcall.value)} :
       fret' = IF r.exc # "" THEN [NoReturn EXCEPT !.status = "raised", !.exc = r.exc]
               ELSE Return(r.value)
  /\ UNCHANGED <<now, text, out, called, fcall, tables, threads, loop, initialized, tools, running, log, http, batch>>

\* CreationTools.create_work_item: the result, with the patch document when the request
\* was made; status is what the backend answers the request with
create_work_item(work_item_type, title, fields, status) ==
  IF work_item_type \notin valid_types
  THEN [NoReturn EXCEPT !.status = "ok", !.exc = "Invalid work item type"]
  ELSE [NoReturn EXCEPT
          !.status = "ok",
          !.exc = _make_request(status),
          !.sent = create_patch(title, IF fields # <<>>
                                       THEN map_fields_for_creation(fields, work_item_type)
                                       ELSE <<>>),
          !.success = _make_request(status) = ""]

\* CreationTools.create_work_item; the backend answers the request with a status
CreateWorkItem ==
  /\ Pending("create_work_item")
  /\ \E status \in Statuses :
       \E result \in {create_work_item(fcall.type, fcall.name, fcall.fields, status)} :
         /\ fret' = result
         /\ http' = IF result.sent # <<>> THEN Append(http, Exchange("POST", status)) ELSE http
  /\ UNCHANGED <<now, text, out, called, fcall, tables, threads, loop, initialized, tools, running, log, batch>>

\* WorkItemTools.update_work_item; the backend answers the request with a status
UpdateWorkItem ==
  /\ Pending("update_work_item")
  /\ batch' = batch
  /\ \E mapped \in {UpdateLoop(fcall.fields, 1, <<>>)} :
       IF mapped.exc # ""
       THEN /\ fret' = [NoReturn EXCEPT !.status = "ok", !.exc = mapped.exc]
            /\ http' = http
       ELSE \E status \in Statuses :
              /\ fret' = [NoReturn EXCEPT !.status = "ok",
                                          !.exc = _make_request(status),
                                          !.sent = update_patch(mapped.fields),
                                          !.success = _make_request(status) = ""]
              /\ http' = Append(http, Exchange("PATCH", status))
  /\ UNCHANGED <<now, text, out, called, fcall, tables, threads, loop, initialized, tools, running, log>>

\* WorkItemTools.get_work_item
GetWorkItem ==
  /\ Pending("get_work_item")
  /\ \E status \in Statuses :
       /\ http' = Append(http, Exchange("GET", status))
       /\ fret' = IF AdoClient_get_work_item(status) = PyNone
                  THEN ToolResult(FALSE, "Work item " \o StrOfInt(fcall.value.n) \o " not found", "")
                  ELSE ToolResult(TRUE, "", "")
  /\ UNCHANGED <<now, text, out, called, fcall, tables, threads, loop, initialized, tools, running, log, batch>>

\* WorkItemTools.delete_work_item
DeleteWorkItem ==
  /\ Pending("delete_work_item")
  /\ \E status \in Statuses :
       /\ http' = Append(http, Exchange("DELETE", status))
       /\ fret' = ToolResult(AdoClient_delete_work_item(status), "",
                             "Work item " \o StrOfInt(fcall.value.n) \o
                             (IF AdoClient_delete_work_item(status) THEN " deleted"
                                                                    ELSE " could not be deleted"))
  /\ UNCHANGED <<now, text, out, called, fcall, tables, threads, loop, initialized, tools, running, log, batch>>

\* WorkItemTools.query_work_items_wiql over AdoClient.query_work_items: the query is posted,
\* and the work items it found, if any, are fetched by AdoClient.get_work_items
QueryWorkItemsWiql ==
  /\ Pending("query_work_items_wiql")
  /\ \E posted \in Statuses :
       IF _make_request(posted) # ""
       THEN /\ http' = Append(http, Exchange("POST", posted))
            /\ fret' = ToolResult(FALSE, _make_request(posted), "")
       ELSE \/ /\ http' = Append(http, Exchange("POST", posted))
               /\ fret' = ToolResult(TRUE, "", "")
            \/ \E fetched \in Statuses :
                 /\ http' = http \o <<Exchange("POST", posted), Exchange("GET", fetched)>>
                 /\ fret' = ToolResult(_make_request(fetched) = "", _make_request(fetched), "")
  /\ UNCHANGED <<now, text, out, called, fcall, tables, threads, loop, initialized, tools, running, log, batch>>

GetWorkItemTypeFields ==
  /\ Pending("get_work_item_type_fields")
  /\ fret' = Return(PyList(get_work_item_type_fields(fcall.type)))
  /\ UNCHANGED <<now, text, out, called, fcall, tables, threads, loop, initialized, tools, running, log, http, batch>>

GetRequiredFields ==
  /\ Pending("get_required_fields")
  /\ fret' = Return(PyList(get_required_fields(fcall.type)))
  /\ UNCHANGED <<now, text, out, called, fcall, tables, threads, loop, initialized, tools, running, log, http, batch>>

ValidateFieldForWorkItemType ==
  /\ Pending("validate_field_for_work_item_type")
  /\ fret' = Return(PyBool(validate_field_for_work_item_type(fcall.name, fcall.type)))
  /\ UNCHANGED <<now, text, out, called, fcall, tables, threads, loop, initialized, tools, running, log, http, batch>>

NextCatalog ==
  \/ GetFieldReference
  \/ GetFieldName
  \/ FormatFieldValue
  \/ CreateWorkItem
  \/ UpdateWorkItem
  \/ GetWorkItemTypeFields
  \/ GetRequiredFields
  \/ ValidateFieldForWorkItemType

SpecCatalog == InitCatalog /\ [][NextCatalog]_vars

(***************************************************************************)
(* The tools that make requests on the backend                             *)
(***************************************************************************)
\* the work item ids given to the tools
WorkItemIds == {7, 12}

TransportCalls ==
       {Call("get_work_item", "", PyInt(n), <<>>, "") : n \in WorkItemIds}
  \cup {Call("delete_work_item", "", PyInt(n), <<>>, "") : n \in WorkItemIds}
  \cup {Call("query_work_items_wiql", "SELECT [System.Id] FROM WorkItems", PyNone, <<>>, "")}
  \cup {Call("create_work_item", "T", PyNone, d, w) : d \in ExampleDicts \cup {<<>>}, w \in WorkItemTypes}
  \cup {Call("update_work_item", "", PyInt(n), d, "") : d \in ExampleDicts, n \in WorkItemIds}

InitTransport ==
  /\ now = StartDay
  /\ text = ""
  /\ out = Idle
  /\ called = 0
  /\ fcall \in TransportCalls
  /\ fret = NoReturn
  /\ tables = Constructed
  /\ threads = [t \in Threads |-> NoThread]
  /\ loop = NoLoop
  /\ initialized = FALSE
  /\ tools = _register_tools
  /\ running = TRUE
  /\ log = <<>>
  /\ http = <<>>
  /\ batch = NoBatch

NextTransport ==
  \/ GetWorkItem
  \/ QueryWorkItemsWiql
  \/ CreateWorkItem
  \/ UpdateWorkItem
  \/ DeleteWorkItem

SpecTransport == InitTransport /\ [][NextTransport]_vars

(***************************************************************************)
(* CreationTools.create_multiple_work_items                                *)
(***************************************************************************)
\* a key the item does not have
Absent == [t |-> "absent", s |-> "", n |-> 0, xs |-> <<>>]

Item(work_item_type, title, fields) ==
  [dict |-> TRUE, work_item_type |-> work_item_type, title |-> title, fields |-> fields]

\* an item that is not a dictionary
NotADict == [dict |-> FALSE, work_item_type |-> Absent, title |-> Absent, fields |-> <<>>]

BatchItems == {
  Item(PyStr("Bug"), PyStr("A"), <<>>),
  Item(PyStr("Widget"), PyStr("B"), <<>>),
  Item(Absent, Absent, << <<"priority", PyStr("2")>> >>),
  NotADict }

Batches == UNION {[1..n -> BatchItems] : n \in 0..MaxItems}

\* item_data.get(key, default)
ItemGet(v, default) == IF v = Absent THEN default ELSE v.s

\* the entry of results: the result of create_work_item for the item, or the
\* error_result of the except clause
ItemEntry(item, result) ==
  [success |-> result.success, error |-> result.exc, sent |-> result.sent,
   work_item_type |-> IF item.dict THEN ItemGet(item.work_item_type, "Task") ELSE "",
   title |-> IF result.sent # <<>> THEN ItemGet(item.title, "Untitled") ELSE ""]

ItemResult(item, status) ==
  IF ~item.dict THEN ItemEntry(item, [NoReturn EXCEPT !.status = "ok", !.exc = "AttributeError"])
  ELSE ItemEntry(item, create_work_item(ItemGet(item.work_item_type, "Task"),
                                        ItemGet(item.title, "Untitled"), item.fields, status))

InitBatch ==
  /\ now = StartDay
  /\ text = ""
  /\ out = Idle
  /\ called = 0
  /\ fcall = Call("create_multiple_work_items", "", PyNone, <<>>, "")
  /\ fret = NoReturn
  /\ tables = Constructed
  /\ threads = [t \in Threads |-> NoThread]
  /\ loop = NoLoop
  /\ initialized = FALSE
  /\ tools = _register_tools
  /\ running = TRUE
  /\ log = <<>>
  /\ http = <<>>
  /\ \E items \in Batches : batch = [NoBatch EXCEPT !.items = items]

\* one iteration of the loop over work_items
CreateNextItem ==
  /\ Pending("create_multiple_work_items")
  /\ Len(batch.results) < Len(batch.items)
  /\ \E status \in Statuses :
       \E entry \in {ItemResult(batch.items[Len(batch.results) + 1], status)} :
         /\ batch' = [batch EXCEPT !.results = Append(@, entry),
                                   !.errors = IF entry.success THEN @ ELSE Append(@, entry)]
         /\ http' = IF entry.sent # <<>> THEN Append(http, Exchange("POST", status)) ELSE http
  /\ UNCHANGED <<now, text, out, called, fcall, fret, tables, threads, loop, initialized, tools, running, log>>

\* the loop ended at the first item that failed
ReturnCreated_at_failure ==
  /\ Pending("create_multiple_work_items")
  /\ Len(batch.results) = Len(batch.items) \/ batch.errors # <<>>
  /\ fret' = [NoReturn EXCEPT !.status = "ok", !.success = Len(batch.errors) = 0]
  /\ batch' = [batch EXCEPT
                 !.created_count = Cardinality({i \in 1..Len(batch.results) : batch.results[i].success}),
                 !.error_count = Len(batch.errors)]
  /\ UNCHANGED <<now, text, out, called, fcall, tables, threads, loop, initialized, tools, running, log, http>>

\* the loop is over: the summary is returned
ReturnCreated ==
  /\ Pending("create_multiple_work_items")
  /\ Len(batch.results) = Len(batch.items)
  /\ fret' = [NoReturn EXCEPT !.status = "ok", !.success = Len(batch.errors) = 0]
  /\ batch' = [batch EXCEPT
                 !.created_count = Cardinality({i \in 1..Len(batch.results) : batch.results[i].success}),
                 !.error_count = Len(batch.errors)]
  /\ UNCHANGED <<now, text, out, called, fcall, tables, threads, loop, initialized, tools, running, log, http>>

NextBatch ==
  \/ CreateNextItem
  \/ ReturnCreated

SpecBatch == InitBatch /\ [][NextBatch]_vars

(***************************************************************************)
(* The texts given to convert_to_wiql: the queries the repository's own    *)
(* examples use, and every text of at most MaxFrags fragments joined by    *)
(* single spaces.                                                          *)
(***************************************************************************)
Examples == {
  "get all completed tasks from last week",
  "Get all completed tasks from last week",
  "show me all bugs assigned to john.doe",
  "Show me all critical bugs assigned to john.doe",
  "show all bugs assigned to me",
  "Show all bugs assigned to me",
  "find active tasks",
  "Find active tasks",
  "find active documents",
  "Find bugs created this week",
  "Get all user stories created last week",
  "List completed features from last month",
  "tasks updated last week",
  "Find items with tag 'urgent'",
  "Find unassigned bugs",
  "Show my work items",
  "bugs created 2 weeks ago",
  "tasks assigned to john.doe, updated yesterday",
  "high priority bugs tagged urgent in area web sprint 5 \"Login Bug\"",
  "unassigned tasks for review",
  "bugs created today or yesterday",
  "items changed this month or last month",
  "Tasks authored by jane",
  "   " }

Fragments == {
  "bugs", "user stories", "active", "in progress",
  "assigned to", "john.doe", "me", "documents",
  "created", "updated", "today", "last week", "3 days ago",
  "created by jane" }

FragmentTexts == UNION { {Join(fs, " ") : fs \in [1..n -> Fragments]} : n \in 0..MaxFrags }

Texts == Examples \cup FragmentTexts

\* the state before convert_to_wiql is invoked with the text t
InitTranslate ==
  /\ now = StartDay
  /\ text \in Texts
  /\ out = Idle
  /\ called = 0
  /\ fcall = NoCall
  /\ fret = NoReturn
  /\ tables = Constructed
  /\ threads = [t \in Threads |-> NoThread]
  /\ loop = NoLoop
  /\ initialized = FALSE
  /\ tools = _register_tools
  /\ running = TRUE
  /\ log = <<>>
  /\ http = <<>>
  /\ batch = NoBatch

\* the wall clock advances by a day
Tick ==
  /\ now < StartDay + MaxClock
  /\ now' = now + 1
  /\ UNCHANGED <<text, out, called, fcall, fret, tables, threads, loop, initialized, tools, running, log, http, batch>>

\* the readings of datetime.now() in the iterations of the loop over
\* time_patterns, when the clock does not pass midnight during the call
Readings == [i \in 1..Len(time_patterns) |-> now]

\* the invocation of convert_to_wiql
Translate ==
  /\ out.status = "idle"
  /\ out' = convert_to_wiql(text, Readings)
  /\ called' = now
  /\ UNCHANGED <<now, text, fcall, fret, tables, threads, loop, initialized, tools, running, log, http, batch>>

NextTranslate ==
  \/ Tick
  \/ Translate

SpecTranslate == InitTranslate /\ [][NextTranslate]_vars

(***************************************************************************)
(* The instances shared by the invocations: QueryConverter and FieldMapper *)
(* build their lookup tables in __init__, and the methods read them.       *)
(***************************************************************************)
\* the invocations made side by side
SharedCalls ==
       {Call("convert_to_wiql", x, PyNone, <<>>, "") :
          x \in {"show me all bugs assigned to john.doe", "Find bugs created this week"}}
  \cup {Call("get_field_reference", x, PyNone, <<>>, "") : x \in {"Title", "custom"}}
  \cup {Call("get_field_name", q, PyNone, <<>>, "") : q \in {"System.Title", "Custom.Field"}}
  \cup {Call("get_field_type", "System.Id", PyNone, <<>>, "")}
  \cup {Call("format_field_value", "System.Id", PyStr("7"), <<>>, "")}
  \cup {Call("get_work_item_type_fields", "", PyNone, <<>>, w) : w \in {"Bug", "Widget"}}
  \cup {Call("validate_field_for_work_item_type", "Microsoft.VSTS.TCM.ReproSteps", PyNone, <<>>, w) :
          w \in {"Bug", "Task"}}
  \cup {Call("get_required_fields", "", PyNone, <<>>, "Bug")}
  \cup {Call("map_fields_for_creation", "", PyNone, <<<<"tags", PyList(<<"a", "b">>)>>>>, "Bug")}

InitShared ==
  /\ now = StartDay
  /\ text = ""
  /\ out = Idle
  /\ called = 0
  /\ fcall = NoCall
  /\ fret = NoReturn
  /\ tables = Constructed
  /\ threads = [t \in Threads |-> NoThread]
  /\ loop = NoLoop
  /\ initialized = FALSE
  /\ tools = _register_tools
  /\ running = TRUE
  /\ log = <<>>
  /\ http = <<>>
  /\ batch = NoBatch

\* a method is invoked on thread t
Invoke(t) ==
  /\ threads[t].pc # "running"
  /\ \E c \in SharedCalls : threads' = [threads EXCEPT ![t] = [pc |-> "running", call |-> c, ret |-> NoReturn]]
  /\ UNCHANGED <<now, text, out, called, fcall, fret, tables, loop, initialized, tools, running, log, http, batch>>

Running(t, op) == threads[t].pc = "running" /\ threads[t].call.op = op

\* the attributes of the instances after a method, invoked as c, has
\* run on them: no method assigns to an attribute or alters a table
SelfAfter_memoized(self, c) ==
  IF c.op = "get_field_reference" /\ DictGet(self.field_mappings, Lower(c.name)) = <<>>
  THEN [self EXCEPT !.field_mappings = @ \o << <<Lower(c.name), "Custom." \o c.name>> >>]
  ELSE self

SelfAfter(self, c) == self

\* the method running on thread t returns r
Returns(t, r) ==
  /\ threads' = [threads EXCEPT ![t].pc = "returned", ![t].ret = r]
  /\ tables' = SelfAfter(tables, threads[t].call)
  /\ UNCHANGED <<now, text, out, called, fcall, fret, loop, initialized, tools, running, log, http, batch>>

SharedConvertToWiql(t) ==
  /\ Running(t, "convert_to_wiql")
  /\ \E r \in {convert_to_wiql(threads[t].call.name, Readings)} :
       Returns(t, IF r.status = "raised" THEN [NoReturn EXCEPT !.status = "raised", !.exc = r.exc]
                  ELSE Return(PyStr(r.wiql)))

SharedGetFieldReference(t) ==
  /\ Running(t, "get_field_reference")
  /\ Returns(t, Return(PyStr(GetOr(tables.field_mappings, Lower(threads[t].call.name),
                                   threads[t].call.name))))

SharedGetFieldName(t) ==
  /\ Running(t, "get_field_name")
  /\ Returns(t, Return(PyStr(GetOr(tables.reverse_mappings, threads[t].call.name,
                                   threads[t].call.name))))

SharedGetFieldType(t) ==
  /\ Running(t, "get_field_type")
  /\ Returns(t, Return(PyStr(get_field_type(threads[t].call.name))))

SharedFormatFieldValue(t) ==
  /\ Running(t, "format_field_value")
  /\ \E r \in {format_field_value(threads[t].call.name, threads[t].call.value)} :
       Returns(t, IF r.exc # "" THEN [NoReturn EXCEPT !.status = "raised", !.exc = r.exc]
                  ELSE Return(r.value))

SharedGetWorkItemTypeFields(t) ==
  /\ Running(t, "get_work_item_type_fields")
  /\ Returns(t, Return(PyList(GetOr(tables.work_item_type_fields, threads[t].call.type, <<>>))))

SharedValidateFieldForWorkItemType(t) ==
  /\ Running(t, "validate_field_for_work_item_type")
  /\ Returns(t, Return(PyBool(
       IF StartsAt(threads[t].call.name, 1, "System.") THEN TRUE
       ELSE InList(threads[t].call.name,
                   GetOr(tables.work_item_type_fields, threads[t].call.type, <<>>)))))

SharedGetRequiredFields(t) ==
  /\ Running(t, "get_required_fields")
  /\ Returns(t, Return(PyList(get_required_fields(threads[t].call.type))))

SharedMapFieldsForCreation(t) ==
  /\ Running(t, "map_fields_for_creation")
  /\ Returns(t, Return(PyDict(map_fields_for_creation(threads[t].call.fields, threads[t].call.type))))

NextShared ==
  \E t \in Threads :
    \/ Invoke(t)
    \/ SharedConvertToWiql(t)
    \/ SharedGetFieldReference(t)
    \/ SharedGetFieldName(t)
    \/ SharedGetFieldType(t)
    \/ SharedFormatFieldValue(t)
    \/ SharedGetWorkItemTypeFields(t)
    \/ SharedValidateFieldForWorkItemType(t)
    \/ SharedGetRequiredFields(t)
    \/ SharedMapFieldsForCreation(t)

SpecShared == InitShared /\ [][NextShared]_vars

(***************************************************************************)
(* convert_to_wiql step by step: the loop of _extract_time_conditions      *)
(* calls date_func in the iteration of each entry that matches, every call *)
(* reads datetime.now(), and the clock advances between the iterations.    *)
(***************************************************************************)
ClockTexts == {
  "bugs created today or yesterday",
  "items changed this month or last month",
  "Find bugs created this week",
  "tasks updated last week",
  "bugs created 2 weeks ago",
  "find active tasks" }

InitClock ==
  /\ now = StartDay
  /\ text \in ClockTexts
  /\ out = Idle
  /\ called = 0
  /\ fcall = NoCall
  /\ fret = NoReturn
  /\ tables = Constructed
  /\ threads = [t \in Threads |-> NoThread]
  /\ loop = NoLoop
  /\ initialized = FALSE
  /\ tools = _register_tools
  /\ running = TRUE
  /\ log = <<>>
  /\ http = <<>>
  /\ batch = NoBatch

\* convert_to_wiql is invoked and reaches the loop
EnterTimeLoop ==
  /\ out.status = "idle"
  /\ loop.k = 0
  /\ loop' = [k |-> 1, conditions |-> <<>>]
  /\ called' = now
  /\ UNCHANGED <<now, text, out, fcall, fret, tables, threads, initialized, tools, running, log, http, batch>>

\* one iteration of the loop: date_func reads the clock as it is now
TimeIteration ==
  /\ out.status = "idle"
  /\ loop.k \in 1..Len(time_patterns)
  /\ \E r \in {TimeStep(Strip(Lower(text)), loop.k, Readings)} :
       IF r.exc # ""
       THEN /\ out' = Wiql([exc |-> r.exc, conds |-> <<>>])
            /\ loop' = [loop EXCEPT !.k = Len(time_patterns) + 1]
       ELSE /\ out' = out
            /\ loop' = [k |-> loop.k + 1, conditions |-> loop.conditions \o r.conds]
  /\ UNCHANGED <<now, text, called, fcall, fret, tables, threads, initialized, tools, running, log, http, batch>>

\* the loop is left and convert_to_wiql returns
LeaveTimeLoop ==
  /\ out.status = "idle"
  /\ loop.k = Len(time_patterns) + 1
  /\ out' = Wiql(Conditions(Strip(Lower(text)), [exc |-> "", conds |-> loop.conditions]))
  /\ UNCHANGED <<now, text, called, fcall, fret, tables, threads, loop, initialized, tools, running, log, http, batch>>

NextClock ==
  \/ Tick
  \/ EnterTimeLoop
  \/ TimeIteration
  \/ LeaveTimeLoop

SpecClock == InitClock /\ [][NextClock]_vars

(***************************************************************************)
(* The main loop of the server: a line is read from stdin, the request is  *)
(* handled and the response is written to stdout.                          *)
(***************************************************************************)
NoParams == [null |-> FALSE, name |-> PyNone]

Request(method, id, params) == [json |-> "object", method |-> method, id |-> id, params |-> params]

\* request.get("id"): None when the request has no id
Ids == {PyInt(1), PyNone}

\* request.get("method"): None when the request has no method
OtherMethods == {PyStr("invalid_method"), PyStr("tools/List"), PyNone}

\* the params of a tools/call request: an object with or without a name, or null
CallParams == {[null |-> FALSE, name |-> n] :
                 n \in {PyStr("list_projects"), PyStr("get_query_suggestions"),
                        PyStr("no_such_tool"), PyNone}}
              \cup {[null |-> TRUE, name |-> PyNone]}

\* a line that is not JSON
NotJson == [json |-> "invalid", method |-> PyNone, id |-> PyNone, params |-> NoParams]

\* a line of JSON that is not an object
NotAnObject == [json |-> "array", method |-> PyNone, id |-> PyNone, params |-> NoParams]

InitServer ==
  /\ now = StartDay
  /\ text = ""
  /\ out = Idle
  /\ called = 0
  /\ fcall = NoCall
  /\ fret = NoReturn
  /\ tables = Constructed
  /\ threads = [t \in Threads |-> NoThread]
  /\ loop = NoLoop
  /\ initialized = FALSE
  /\ tools = _register_tools
  /\ running = TRUE
  /\ log = <<>>
  /\ http = <<>>
  /\ batch = NoBatch

Reading == running /\ Len(log) < MaxRequests

\* the request is handled and the response printed
Respond(request, h) ==
  /\ initialized' = h.initialized
  /\ log' = Append(log, [request |-> request, response |-> h.response])
  /\ UNCHANGED <<now, text, out, called, fcall, fret, tables, threads, loop, tools, running, http, batch>>

Initialize ==
  /\ Reading
  /\ \E id \in Ids :
       Respond(Request(PyStr("initialize"), id, NoParams),
               handle_request(initialized, tools, Request(PyStr("initialize"), id, NoParams), FALSE))

ListTools ==
  /\ Reading
  /\ \E id \in Ids :
       Respond(Request(PyStr("tools/list"), id, NoParams),
               handle_request(initialized, tools, Request(PyStr("tools/list"), id, NoParams), FALSE))

CallTool ==
  /\ Reading
  /\ \E id \in Ids, params \in CallParams, accepted \in BOOLEAN :
       Respond(Request(PyStr("tools/call"), id, params),
               handle_request(initialized, tools, Request(PyStr("tools/call"), id, params), accepted))

OtherMethod ==
  /\ Reading
  /\ \E id \in Ids, method \in OtherMethods :
       Respond(Request(method, id, NoParams),
               handle_request(initialized, tools, Request(method, id, NoParams), FALSE))

\* json.loads raises JSONDecodeError: the parse error is printed
ParseError ==
  /\ Reading
  /\ log' = Append(log, [request |-> NotJson, response |-> ErrorResponse(PyNone, -32700, "Parse error")])
  /\ UNCHANGED <<now, text, out, called, fcall, fret, tables, threads, loop,
                 initialized, tools, running, http, batch>>

\* request.get raises AttributeError in handle_request and again in its
\* except clause: the loop ends without a response
ServerError ==
  /\ Reading
  /\ running' = FALSE
  /\ UNCHANGED <<now, text, out, called, fcall, fret, tables, threads, loop,
                 initialized, tools, log, http, batch>>

NextServer ==
  \/ Initialize
  \/ ListTools
  \/ CallTool
  \/ OtherMethod
  \/ ParseError
  \/ ServerError

SpecServer == InitServer /\ [][NextServer]_vars

(***************************************************************************)
(* Properties of convert_to_wiql (under SpecTranslate)                     *)
(***************************************************************************)
Translated == out.status # "idle"

\* the normalized text the passes work on
Query == Strip(Lower(text))

Has(conds, c) == \E i \in 1..Len(conds) : conds[i] = c

HasPrefix(conds, prefix) == \E i \in 1..Len(conds) : StartsAt(conds[i], 1, prefix)

CountPrefix(conds, prefix) == Cardinality({i \in 1..Len(conds) : StartsAt(conds[i], 1, prefix)})

\* the position of the first occurrence of key in s, 0 when absent
Find(s, key) ==
  LET S == {i \in 1..(Len(s) - Len(key) + 1) : StartsAt(s, i, key)}
  IN IF S = {} THEN 0 ELSE Min(S)

\* the words of the text
WordsOf(s) == LET w == FindAll(s, WordRunAt) IN {w[k] : k \in 1..Len(w)}

HasDateCondition(conds) ==
  HasPrefix(conds, "[System.CreatedDate]") \/ HasPrefix(conds, "[System.ChangedDate]")

\* C1: convert_to_wiql returns for every text, and the string returned holds
\* the selection clause, the source clause and the ordering clause.
C1_TranslateTotal ==
  Translated =>
    /\ out.status = "ok"
    /\ StartsAt(out.wiql, 1, select_clause)
    /\ Contains(out.wiql, " " \o from_clause \o " ")
    /\ StartsAt(out.wiql, Len(out.wiql) - Len(order_clause) + 1, order_clause)

LastWeekTexts == {"get all completed tasks from last week", "Get all completed tasks from last week"}

\* C2 (as stated): "get all completed tasks from last week" yields the Task
\* condition, the Done condition and a ChangedDate cutoff of the day of the
\* call minus 14 days.
C2_LastWeekCutoff ==
  (Translated /\ text \in LastWeekTexts) =>
    /\ Has(out.where, "[System.WorkItemType] = 'Task'")
    /\ Has(out.where, "[System.State] = 'Done'")
    /\ Has(out.where, "[System.ChangedDate] >= '" \o strftime(called - 14) \o "'")

\* C2 (amended): "get all completed tasks from last week" yields the Task
\* condition, the Done condition and no date condition, the text holding no
\* trigger word; with the trigger word "updated", "tasks updated last week"
\* yields the ChangedDate cutoff of the day of the call minus 14 days.
C2_LastWeekNoCutoff ==
  /\ (Translated /\ text \in LastWeekTexts) =>
       /\ Has(out.where, "[System.WorkItemType] = 'Task'")
       /\ Has(out.where, "[System.State] = 'Done'")
       /\ ~HasDateCondition(out.where)
  /\ (Translated /\ text = "tasks updated last week") =>
       /\ Has(out.where, "[System.ChangedDate] >= '" \o strftime(called - 14) \o "'")
       /\ ~HasPrefix(out.where, "[System.CreatedDate]")

C2_Witness ==
  /\ text = "get all completed tasks from last week"
  /\ out.status = "ok"
  /\ Len(out.where) = 3

\* the phrase that follows the first "assigned to" of the text, up to the
\* next comma or the end of the text; "" when there is none
AssigneePhrase ==
  LET a == Find(Query, "assigned to ")
      rest == SubSeq(Query, a + Len("assigned to "), Len(Query))
      comma == Find(rest, ",")
  IN IF a = 0 THEN ""
     ELSE Strip(IF comma = 0 THEN rest ELSE SubSeq(rest, 1, comma - 1))

TypeWords == << <<"bug", "Bug">>, <<"task", "Task">>, <<"stories", "User Story">> >>

\* the type the text mentions, when it mentions one type only
MentionedType ==
  LET S == {k \in 1..Len(TypeWords) : Contains(Query, TypeWords[k][1])}
  IN IF Cardinality(S) = 1 THEN <<TypeWords[CHOOSE k \in S : TRUE][2]>> ELSE <<>>

\* C3: for a text with "assigned to X": when X is me the AssignedTo = @Me
\* condition is emitted and no CONTAINS assignee condition; when X is a
\* literal name the one assignee condition is AssignedTo CONTAINS 'X', no
\* @Me condition is emitted, and the condition of the mentioned type is.
C3_AssignedTo ==
  (Translated /\ out.status = "ok" /\ AssigneePhrase # "") =>
    /\ CountPrefix(out.where, "[System.AssignedTo]") = 1
    /\ AssigneePhrase = "me" => Has(out.where, "[System.AssignedTo] = @Me")
    /\ AssigneePhrase \notin {"me", "myself", "unassigned", "nobody", "no one"} =>
         Has(out.where, "[System.AssignedTo] CONTAINS '" \o AssigneePhrase \o "'")
    /\ MentionedType # <<>> =>
         Has(out.where, "[System.WorkItemType] = '" \o MentionedType[1] \o "'")

C3_Witness ==
  /\ text = "show me all bugs assigned to john.doe"
  /\ Has(out.where, "[System.WorkItemType] = 'Bug'")
  /\ Has(out.where, "[System.AssignedTo] CONTAINS 'john.doe'")

\* C4: "find active tasks" yields the Task and the Active condition and no
\* date or assignee condition; a text without an assignee phrase and without
\* my, mine, me, unassigned, nobody, no one among its words yields no
\* assignee condition; a text without a relative-time phrase yields no date
\* condition.
C4_NoAssigneeNoDate ==
  (Translated /\ out.status = "ok") =>
    /\ text = "find active tasks" =>
         out.where = <<"[System.WorkItemType] = 'Task'", "[System.State] = 'Active'">>
    /\ (/\ ~Contains(Query, "assigned")
        /\ WordsOf(Query) \cap {"by", "for", "my", "mine", "me", "unassigned", "nobody"} = {}
        /\ ~Contains(Query, "no one"))
       => ~HasPrefix(out.where, "[System.AssignedTo]")
    /\ (\A k \in 1..Len(time_patterns) : ~TimeSearch(time_patterns[k], Query).ok)
       => ~HasDateCondition(out.where)

(***************************************************************************)
(* Properties of the field mapper and of the tools (under SpecCatalog)     *)
(***************************************************************************)
Done(op) == fcall.op = op /\ fret.status # "idle"

\* the field reference has a friendly name in field_mappings
HasAlias(q) == \E i \in 1..Len(field_mappings) : field_mappings[i][2] = q

\* the name, in any letter case, is a key of field_mappings
IsKey(x) == \E i \in 1..Len(field_mappings) : field_mappings[i][1] = Lower(x)

\* C5: for every field reference q with a friendly name,
\* get_field_reference(get_field_name(q)) = q.
C5_RoundTrip ==
  (Done("get_field_name") /\ HasAlias(fcall.name)) =>
    /\ fret.status = "ok"
    /\ fret.value.s # fcall.name
    /\ get_field_reference(fret.value.s) = fcall.name

C5_Witness ==
  /\ Done("get_field_name")
  /\ fcall.name = "Microsoft.VSTS.Scheduling.StoryPoints"
  /\ fret.value = PyStr("story_points")

\* C6: get_field_reference never fails; a key of field_mappings in any
\* letter case gives its field reference, any other name is returned
\* unchanged and get_field_reference of the result is the result again.
C6_ResolveCaseInsensitive ==
  Done("get_field_reference") =>
    /\ fret.status = "ok"
    /\ \A i \in 1..Len(field_mappings) :
         field_mappings[i][1] = Lower(fcall.name) => fret.value = PyStr(field_mappings[i][2])
    /\ ~IsKey(fcall.name) =>
         /\ fret.value = PyStr(fcall.name)
         /\ get_field_reference(fret.value.s) = fret.value.s

C6_Witness ==
  /\ Done("get_field_reference")
  /\ fcall.name = "TITLE"
  /\ fret.value = PyStr("System.Title")

\* the strings int() and float() reject
NonNumeric(v) == v.t = "str" /\ PyFloatOf(v).exc = "ValueError"

\* C7: format_field_value of a value other than None raises nothing and
\* returns a value other than None; a non-numeric string given to an
\* integer or double field comes back as the same string.
C7_CoerceNeverThrows ==
  (Done("format_field_value") /\ fcall.value # PyNone) =>
    /\ fret.status = "ok"
    /\ fret.value # PyNone
    /\ (get_field_type(fcall.name) \in {"integer", "double"} /\ NonNumeric(fcall.value)) =>
         fret.value = fcall.value

\* the operations of the patch document that come from the field dictionary
FieldOps == IF fcall.op = "create_work_item" THEN Tail(fret.sent) ELSE fret.sent

\* a create or an update request was sent to the backend
Sent == (Done("create_work_item") \/ Done("update_work_item")) /\ http # <<>>

\* the item is the last one of the dictionary with its field reference
LastOf(fields, i) ==
  \A j \in 1..Len(fields) :
    get_field_reference(fields[j][1]) = get_field_reference(fields[i][1]) => j <= i

\* C8: neither a create nor an update request carries to the backend an
\* operation for an item of the field dictionary whose value is None;
\* {title: "T", assigned_to: None} gives one operation, the title.
C8_NoNullToBackend ==
  Sent =>
    /\ \A i \in 1..Len(fcall.fields) :
         (fcall.fields[i][2] = PyNone /\ LastOf(fcall.fields, i)) =>
           ~\E k \in 1..Len(FieldOps) :
              /\ FieldOps[k].path = PatchPath(get_field_reference(fcall.fields[i][1]))
              /\ FieldOps[k].value = PyNone
    /\ fcall.fields = << <<"title", PyStr("T")>>, <<"assigned_to", PyNone>> >> =>
         /\ Len(FieldOps) = 1
         /\ FieldOps[1].path = "/fields/System.Title"
         /\ FieldOps[1].value = PyStr("T")

\* the paths and values of a patch document
Entries(ops) == [k \in 1..Len(ops) |-> <<ops[k].path, ops[k].value>>]

\* C9: every create and every update is sent; every item whose value is not
\* None is carried under get_field_reference of its key with the value
\* format_field_value gives; a create request carries the same fields as an
\* update request with the same field dictionary.
C9_SamePathBothWays ==
  ((Done("create_work_item") /\ fcall.type \in valid_types) \/ Done("update_work_item")) =>
    /\ Sent
    /\ \A i \in 1..Len(fcall.fields) :
         (fcall.fields[i][2] # PyNone /\ LastOf(fcall.fields, i)) =>
           LET field_ref == get_field_reference(fcall.fields[i][1])
           IN \E k \in 1..Len(FieldOps) :
                /\ FieldOps[k].path = PatchPath(field_ref)
                /\ FieldOps[k].value = format_field_value(field_ref, fcall.fields[i][2]).value
    /\ Entries(FieldOps) = Entries(update_patch(UpdateLoop(fcall.fields, 1, <<>>).fields))

\* C10: format_field_value reduces a dictionary with a displayName given to
\* an identity field to the displayName and keeps a string; joins a list
\* given to the tags field with "; "; gives str(value) for every other value
\* of a string, plaintext, html, treepath or identity field.
C10_CoerceShapes ==
  (Done("format_field_value") /\ fcall.value # PyNone) =>
    LET field_type == get_field_type(fcall.name)
        value == fcall.value
    IN /\ fret.status = "ok"
       /\ field_type \in {"string", "plaintext", "html", "treepath", "identity"} =>
            fret.value =
              IF field_type = "identity" /\ value.t = "dict" /\ HasKey(value.xs, "displayName")
                THEN PyStr(GetOr(value.xs, "displayName", ""))
              ELSE IF fcall.name = "System.Tags" /\ value.t = "list"
                THEN PyStr(Join(value.xs, "; "))
              ELSE PyStr(PyStrOf(value))

\* C11: get_required_fields always holds System.Title; it holds the
\* ReproSteps field exactly for Bug and the Steps field exactly for Test
\* Case; for every other type it is the title alone.
C11_RequiredFields ==
  Done("get_required_fields") =>
    /\ fret.status = "ok"
    /\ InList("System.Title", fret.value.xs)
    /\ InList("Microsoft.VSTS.TCM.ReproSteps", fret.value.xs) <=> fcall.type = "Bug"
    /\ InList("Microsoft.VSTS.TCM.Steps", fret.value.xs) <=> fcall.type = "Test Case"
    /\ fcall.type \notin {"Bug", "Test Case"} => fret.value = PyList(<<"System.Title">>)

C11_Witness ==
  /\ Done("get_required_fields")
  /\ fcall.type = "Bug"
  /\ fret.value = PyList(<<"System.Title", "Microsoft.VSTS.TCM.ReproSteps">>)

\* the types get_work_item_type_fields knows
KnownTypes == {work_item_type_fields[i][1] : i \in 1..Len(work_item_type_fields)}

\* the field reference is in the System namespace
InSystem(q) == Len(q) >= 7 /\ SubSeq(q, 1, 7) = "System."

\* C12: validate_field_for_work_item_type is true for every field of the
\* System namespace whatever the type, and otherwise is membership of the
\* field in get_work_item_type_fields of the type, which is empty for a type
\* that is not known: no other field is valid for such a type.
C12_ValidFor ==
  /\ Done("validate_field_for_work_item_type") =>
       /\ fret.status = "ok"
       /\ InSystem(fcall.name) => fret.value = PyBool(TRUE)
       /\ ~InSystem(fcall.name) =>
            /\ fret.value = PyBool(InList(fcall.name, get_work_item_type_fields(fcall.type)))
            /\ fcall.type \notin KnownTypes => fret.value = PyBool(FALSE)
            /\ fcall.name = "Microsoft.VSTS.TCM.ReproSteps" => fret.value = PyBool(fcall.type = "Bug")
  /\ (Done("get_work_item_type_fields") /\ fcall.type \notin KnownTypes) =>
       fret.value = PyList(<<>>)

C12_Witness ==
  /\ Done("validate_field_for_work_item_type")
  /\ fcall.name = "System.Unknown"
  /\ fcall.type = "Widget"
  /\ fret.value = PyBool(TRUE)

\* the condition is a group of alternatives
IsGroup(cond) == Contains(cond, " OR ")

\* the conditions of the returned query, joined as its WHERE clause
RECURSIVE AndJoined(_)
AndJoined(conds) ==
  IF Len(conds) = 1 THEN conds[1] ELSE conds[1] \o " AND " \o AndJoined(Tail(conds))

\* C13: every query string returned is the selected-fields clause, the
\* source clause, a WHERE clause exactly when a condition was emitted (the
\* conditions joined with AND, the group of search-term alternatives in
\* parentheses as one condition) and the ordering clause last; a text of
\* white space alone gives a query without WHERE clause.
C13_QueryShape ==
  out.status = "ok" =>
    /\ out.wiql = select_clause \o " " \o from_clause
                  \o (IF out.where = <<>> THEN "" ELSE " WHERE " \o AndJoined(out.where))
                  \o " " \o order_clause
    /\ Contains(out.wiql, "WHERE") <=> out.where # <<>>
    /\ \A i \in 1..Len(out.where) :
         IsGroup(out.where[i]) =>
           /\ Char(out.where[i], 1) = "("
           /\ Char(out.where[i], Len(out.where[i])) = ")"
           /\ \A j \in 1..Len(out.where) : IsGroup(out.where[j]) => j = i
    /\ Strip(text) = "" => out.wiql = select_clause \o " " \o from_clause \o " " \o order_clause

C13_Witness ==
  /\ text = "Show me all critical bugs assigned to john.doe"
  /\ out.status = "ok"
  /\ Len(out.where) = 3
  /\ IsGroup(out.where[3])
  /\ Contains(out.wiql, " WHERE [System.WorkItemType] = 'Bug' AND ")

\* what the method invoked as c returns when nothing else runs
Alone(c) ==
  CASE c.op = "convert_to_wiql" ->
         PyStr(convert_to_wiql(c.name, [i \in 1..Len(time_patterns) |-> StartDay]).wiql)
    [] c.op = "get_field_reference" -> PyStr(get_field_reference(c.name))
    [] c.op = "get_field_name" -> PyStr(get_field_name(c.name))
    [] c.op = "get_field_type" -> PyStr(get_field_type(c.name))
    [] c.op = "format_field_value" -> format_field_value(c.name, c.value).value
    [] c.op = "get_work_item_type_fields" -> PyList(get_work_item_type_fields(c.type))
    [] c.op = "validate_field_for_work_item_type" ->
         PyBool(validate_field_for_work_item_type(c.name, c.type))
    [] c.op = "get_required_fields" -> PyList(get_required_fields(c.type))
    [] c.op = "map_fields_for_creation" -> PyDict(map_fields_for_creation(c.fields, c.type))

Instants == StartDay..(StartDay + MaxClock)

\* C15: the date cutoffs one invocation of convert_to_wiql emits are all
\* computed from one reading of the clock, also when the clock advances
\* while the invocation runs: what it returns is what it returns when the
\* clock stands still at some instant of the invocation.
C15_SingleSample ==
  out.status # "idle" =>
    \E d \in Instants :
      /\ called <= d
      /\ d <= now
      /\ out = convert_to_wiql(text, [i \in 1..Len(time_patterns) |-> d])

\* the methods handle_request dispatches on
KnownMethods == {PyStr("initialize"), PyStr("tools/list"), PyStr("tools/call")}

\* the response lists the registered tool reg with its name, description and input schema
Lists(response, reg) ==
  \E k \in 1..Len(response.result.tools) :
    /\ response.result.tools[k].name = reg[1]
    /\ response.result.tools[k].name = reg[2].name
    /\ response.result.tools[k].description = reg[2].description
    /\ response.result.tools[k].description # ""
    /\ response.result.tools[k].inputSchema = reg[2].inputSchema

\* C16: once an initialize request has been handled, every later tools/list
\* request is answered with a result, not an error, whose list of tools is
\* not empty and holds every registered tool with its name, description and
\* input schema, whatever was handled in between.
C16_ListAfterInitialize ==
  \A i \in 1..Len(log) : \A j \in (i + 1)..Len(log) :
    (log[i].request.method = PyStr("initialize") /\ log[j].request.method = PyStr("tools/list")) =>
      /\ log[j].response.has_result
      /\ ~log[j].response.has_error
      /\ log[j].response.id = log[j].request.id
      /\ log[j].response.result.tools # <<>>
      /\ Len(log[j].response.result.tools) = 17
      /\ \A r \in 1..Len(_register_tools) : Lists(log[j].response, _register_tools[r])

C16_Witness ==
  /\ Len(log) = 3
  /\ log[1].request.method = PyStr("initialize")
  /\ log[2].request.method = PyStr("tools/call")
  /\ log[2].response.has_result
  /\ log[3].request.method = PyStr("tools/list")
  /\ log[3].response.has_result
  /\ Len(log[3].response.result.tools) = 17

\* the flag of the server before the i-th line was handled: set by the
\* initialize requests handled before it
FlagBefore(i) == \E k \in 1..(i - 1) : log[k].request.method = PyStr("initialize")

\* C17: a request whose method is none of initialize, tools/list and
\* tools/call is answered, whether the server is initialized or not, with an
\* error of code -32601 that carries the id of the request and no result,
\* and handling it leaves the initialized flag as it was.
C17_MethodNotFound ==
  /\ \A i \in 1..Len(log) :
       (log[i].request.json = "object" /\ log[i].request.method \notin KnownMethods) =>
         /\ log[i].response.has_error
         /\ log[i].response.code = -32601
         /\ log[i].response.id = log[i].request.id
         /\ ~log[i].response.has_result
  /\ initialized <=> FlagBefore(Len(log) + 1)

C17_Witness ==
  /\ Len(log) = 3
  /\ log[1].request.method = PyStr("invalid_method")
  /\ log[1].response.code = -32601
  /\ log[2].request.method = PyStr("initialize")
  /\ log[3].request.method = PyNone
  /\ log[3].request.json = "object"
  /\ log[3].request.id = PyInt(1)
  /\ log[3].response = ErrorResponse(PyInt(1), -32601, "Method not found: None")
  /\ initialized

\* a self-reference keyword occurs in the text
SelfKeyword == AnyIn(<<"my", "mine", "me">>, Query)

\* an unassigned keyword occurs in the text
NobodyKeyword == AnyIn(<<"unassigned", "nobody", "no one">>, Query)

TimePhrase == \E k \in 1..Len(time_patterns) : TimeSearch(time_patterns[k], Query).ok

CreatedTrigger == Contains(Query, "created")

ChangedTrigger ==
  ~CreatedTrigger /\ AnyIn(<<"changed", "updated", "modified">>, Query)

\* C19: a relative-time phrase of the table gives a date condition only
\* along with a trigger word: with "created" the cutoff is on the creation
\* date, with changed, updated or modified on the modification date, and
\* without a trigger word, or without a phrase, there is no date condition.
C19_TemporalGating ==
  Translated =>
    /\ (TimePhrase /\ CreatedTrigger) =>
         /\ HasPrefix(out.where, "[System.CreatedDate] >= '")
         /\ ~HasPrefix(out.where, "[System.ChangedDate]")
    /\ (TimePhrase /\ ChangedTrigger) =>
         /\ HasPrefix(out.where, "[System.ChangedDate] >= '")
         /\ ~HasPrefix(out.where, "[System.CreatedDate]")
    /\ (~CreatedTrigger /\ ~ChangedTrigger) =>
         (out.status = "ok" /\ ~HasDateCondition(out.where))
    /\ ~TimePhrase => ~HasDateCondition(out.where)

\* C20: every text gets at most one condition on the creation date and at
\* most one on the modification date, also a text with several relative-time
\* phrases and a trigger word.
C20_OneDateCondition ==
  Translated =>
    /\ CountPrefix(out.where, "[System.CreatedDate]") <= 1
    /\ CountPrefix(out.where, "[System.ChangedDate]") <= 1

\* the entries of the synonym table whose synonym occurs in the text
TypeSynonyms == {k \in 1..Len(work_item_types) : Contains(Query, work_item_types[k][1])}

\* the longest of them, the first one among those of equal length
LongestSynonym ==
  CHOOSE k \in TypeSynonyms :
    \A j \in TypeSynonyms :
      \/ Len(work_item_types[j][1]) < Len(work_item_types[k][1])
      \/ (Len(work_item_types[j][1]) = Len(work_item_types[k][1]) /\ k <= j)

\* C21: at most one type condition is emitted, the one of the longest type
\* synonym that occurs in the text (the first one among equals), and a text
\* without type synonym gets no type condition.
C21_LongestTypeMatch ==
  (Translated /\ out.status = "ok") =>
    /\ CountPrefix(out.where, "[System.WorkItemType]") <= 1
    /\ TypeSynonyms = {} => ~HasPrefix(out.where, "[System.WorkItemType]")
    /\ TypeSynonyms # {} =>
         Has(out.where, "[System.WorkItemType] = '" \o work_item_types[LongestSynonym][2] \o "'")

\* w is a search term of the query returned
IsTerm(w) ==
  \E i \in 1..Len(out.where) :
    /\ Char(out.where[i], 1) = "("
    /\ Contains(out.where[i], "[System.Title] CONTAINS '" \o w \o "'")

\* the type and state synonyms that occur in the text
Recognized ==
  {work_item_types[k][1] : k \in TypeSynonyms}
  \cup {states[k][1] : k \in {j \in 1..Len(states) : Contains(Query, states[j][1])}}

\* C22: no word of a type or state synonym that occurs in the text is a
\* search term, and in a text without quotes no stop word and no word of
\* fewer than 3 characters is a search term.
C22_SearchTermsStripped ==
  (Translated /\ out.status = "ok") =>
    /\ \A key \in Recognized : \A w \in WordsOf(key) : ~IsTerm(w)
    /\ ~Contains(Query, "\"") =>
         \A w \in WordsOf(Query) : (w \in stop_words \/ Len(w) < 3) => ~IsTerm(w)

\* the quoted phrases of the text as it was given
QuotedPhrases == LET q == FindAll(text, QuotedAt) IN {q[k] : k \in 1..Len(q)}

\* C23: a quoted phrase of the text is a search term of the query as it
\* stands in the text, with its upper-case letters and with the type and
\* state keywords it holds.
C23_QuotedVerbatim ==
  (Translated /\ out.status = "ok") => \A phrase \in QuotedPhrases : IsTerm(phrase)

\* the place of a condition in the order of the passes
PassOf(cond) ==
  CASE StartsAt(cond, 1, "[System.WorkItemType]") -> 1
    [] StartsAt(cond, 1, "[System.State]") -> 2
    [] StartsAt(cond, 1, "[Microsoft.VSTS.Common.Priority]") -> 3
    [] StartsAt(cond, 1, "[System.AssignedTo]") -> 4
    [] StartsAt(cond, 1, "[System.CreatedBy]") -> 5
    [] StartsAt(cond, 1, "[System.CreatedDate]") -> 6
    [] StartsAt(cond, 1, "[System.ChangedDate]") -> 6
    [] StartsAt(cond, 1, "[System.Tags]") -> 7
    [] StartsAt(cond, 1, "[System.AreaPath]") -> 8
    [] StartsAt(cond, 1, "[System.IterationPath]") -> 9
    [] StartsAt(cond, 1, "(") -> 10

\* C24: the conditions of the WHERE clause stand in the order of the
\* passes: type, state, priority, assignee, author, dates, tags, area path,
\* iteration path, and the group of search terms last.
C24_PassOrder ==
  (Translated /\ out.status = "ok") =>
    \A i \in 1..Len(out.where) : \A j \in (i + 1)..Len(out.where) :
      PassOf(out.where[i]) <= PassOf(out.where[j])

\* the last request made on the backend was answered with this status
Answered(status) == http # <<>> /\ http[Len(http)].status = status

\* C25: when the backend answers the request of a get, a query, a create, an update or a
\* delete with 401, 403 or 404, the result of the tool is unsuccessful and its error names
\* that kind of failure: authentication, permission, not found
C25_FailureSurfaced ==
  fret.status = "ok" =>
    /\ Answered(401) => ~fret.success /\ Contains(fret.exc, "Authentication failed")
    /\ Answered(403) => ~fret.success /\ Contains(fret.exc, "Access denied")
    /\ Answered(404) => ~fret.success /\ Contains(Lower(fret.exc), "not found")

\* the i-th line read is a request of this method
IsMethod(i, method) == log[i].request.json = "object" /\ log[i].request.method = PyStr(method)

\* an initialize request was read before the i-th line
InitializedBefore(i) == \E j \in 1..(i - 1) : IsMethod(j, "initialize")

\* C26: until an initialize request is handled every tools/list and tools/call request is
\* answered with the error -32002 'Server not initialized' and no result, so no tool is
\* executed, and the flag stays false; the flag is true exactly when an initialize request
\* has been handled, so only initialize changes it and it never goes back to false
C26_InitializationGate ==
  /\ initialized <=> InitializedBefore(Len(log) + 1)
  /\ \A i \in 1..Len(log) :
       (IsMethod(i, "tools/list") \/ IsMethod(i, "tools/call")) /\ ~InitializedBefore(i) =>
         log[i].response = ErrorResponse(log[i].request.id, -32002, "Server not initialized")

C26_Witness ==
  /\ Len(log) = 3
  /\ IsMethod(1, "tools/call") /\ log[1].request.params.name = PyStr("list_projects")
  /\ log[1].response.code = -32002 /\ ~log[1].response.has_result
  /\ IsMethod(2, "initialize") /\ initialized
  /\ IsMethod(3, "tools/call") /\ log[3].response.result.kind = "tool"

\* C27: every line the main loop reads is answered with exactly one response line, a parse
\* error for a line that is not JSON and a result or an error for a line of JSON, object or
\* not, and the loop goes on to the next line
C27_OneResponsePerLine == [][Reading => Len(log') = Len(log) + 1 /\ running']_vars

\* the work items the backend created: the create requests it answered with success
Created == {k \in 1..Len(http) : http[k].method = "POST" /\ _make_request(http[k].status) = ""}

\* C28: create_multiple_work_items goes through every item in order and does not stop at a
\* failure: results has one entry per item, in the order of the items, created_count plus
\* error_count is the number of items, success holds exactly when error_count is 0, and the
\* items created before a failure stay created: no request but the create requests is made
C28_BatchSummary ==
  /\ Cardinality(Created) = Cardinality({i \in 1..Len(batch.results) : batch.results[i].success})
  /\ \A k \in 1..Len(http) : http[k].method = "POST"
  /\ Done("create_multiple_work_items") =>
       /\ Len(batch.results) = Len(batch.items)
       /\ \A i \in 1..Len(batch.items) :
            batch.results[i].work_item_type =
              (IF batch.items[i].dict THEN ItemGet(batch.items[i].work_item_type, "Task") ELSE "")
       /\ batch.created_count + batch.error_count = Len(batch.items)
       /\ fret.success <=> batch.error_count = 0

C28_Witness ==
  /\ Done("create_multiple_work_items")
  /\ Len(batch.items) = 2
  /\ batch.items[1].work_item_type = PyStr("Widget") /\ ~batch.results[1].success
  /\ batch.items[2].work_item_type = PyStr("Bug") /\ batch.results[2].success
  /\ batch.created_count = 1 /\ batch.error_count = 1 /\ ~fret.success

C30_AuthorImpliesAssignee ==
  (Translated /\ out.status = "ok") =>
    (HasPrefix(out.where, "[System.CreatedBy]") => HasPrefix(out.where, "[System.AssignedTo]"))

C30_Witness ==
  /\ Translated /\ out.status = "ok"
  /\ text = "created by jane"
  /\ Has(out.where, "[System.AssignedTo] CONTAINS 'jane'")
  /\ Has(out.where, "[System.CreatedBy] CONTAINS 'jane'")
====
